---- MODULE Spec2Model ----
(***************************************************************************)
(* Verification model of the bluesky-bots repository.                      *)
(*                                                                         *)
(*   Part A  isDefaultAvatar (checkfollower): the placeholder-avatar       *)
(*           heuristic, as a call that decodes, counts colour keys and     *)
(*           classifies.                                                   *)
(*   Part B  the SCN bot (blueskybotscn/index.js): main, checkFeeds and    *)
(*           the interval timer, with Date.now() as an explicit clock.     *)
(*   Part C  the scheduling every polling bot shares (SCN, npm, UI5,       *)
(*           Reddit): login, the awaited first check, setInterval.         *)
(*   Part D  the npm, UI5 and Reddit bots: main, the check function with   *)
(*           its awaits, the posted record, the not-found set, the timer.  *)
(*   Part E  the text functions: stripHtml, the truncation to the post     *)
(*           limit, the truncation of titles, the previous UI5 version.    *)
(*   Part F  fetchSapPackages (npm bot): the paged search of the registry. *)
(*   Part G  the follower loop of checkfollower: the display-name and      *)
(*           avatar checks, the progress file, the message.                *)
(***************************************************************************)
EXTENDS Integers, Sequences, FiniteSets, TLC

VARIABLES
  \* ---- Part A: one call of isDefaultAvatar(imageBuffer)
  av_pc,        \* "called" | "decoded" | "resolved" | "rejected"
  av_image,     \* the input: what the bytes decode to (or that they do not)
  av_alpha2,    \* a second alpha plane, for the same colours
  av_data,      \* data: the raw buffer sharp resolved with
  av_info,      \* info: width*height and channels of that buffer
  av_result,    \* the value the promise resolved with, or "none"
  \* ---- Part B: the SCN bot process
  proc,         \* main: "boot" | "running" | "failed"
  postedIds,    \* the in-memory map: key -> Bluesky post uri or Null
  file,         \* posted_ids.json
  lastPostTime, \* let lastPostTime
  now,          \* Date.now()
  timer,        \* setInterval(checkFeeds, ..): time of the next call, 0 = not set
  cyc,          \* the invocations of checkFeeds that have not returned
  \* ---- Part B: what Bluesky and an observer of the process see
  posted,       \* per key, the number of posts Bluesky accepted
  failed,       \* the keys a post of which has failed
  lastAttemptEnd, \* when the latest post attempt of this process ended, -1 = none
  budget,       \* what the run has used of the model's bounds
  \* ---- Part C: the scheduling of a polling bot
  pl_bot,       \* which bot: "scn" | "npm" | "ui5" | "reddit"
  pl_main,      \* main: "login" | "initial" | "scheduled" | "failed"
  pl_runs,      \* invocations of the check function that have not returned
  pl_due,       \* time until the interval timer calls the check function
  pl_first,     \* how the awaited first check ended: "none" | "return" | "caught"
  pl_event,     \* the latest event: "none" | "start" | "return" | "caught"
  \* ---- Part D: the process of an npm, UI5 or Reddit bot
  b_bot,        \* which bot: "npm" | "ui5" | "reddit"
  b_proc,       \* main: "boot" | "running" | "failed"
  b_ids,        \* postedPackages / postedVersions / postedIds, in memory
  b_file,       \* posted_packages.json / posted_versions.json / posted_reddit_posts.json
  b_notFound,   \* npm: notFoundPackages
  b_nfFile,     \* npm: not_found_packages.json
  b_last,       \* let lastPostTime
  b_now,        \* Date.now()
  b_timer,      \* setInterval(check, ..): time of the next call, 0 = not set
  b_cyc,        \* the invocations of the check function that have not returned
  \* ---- Part D: what Bluesky and an observer of the process see
  b_posted,     \* per identifier, the number of posts Bluesky accepted
  b_lastSuccess, \* when the latest accepted post of this process completed, -1 = none
  b_fetchFailed, \* npm: the packages a registry fetch of which has failed
  b_caught,     \* the exceptions the loop of the check function has thrown
  b_notOk,      \* UI5: the number of fetches answered with a status that is not ok
  b_budget,     \* what the run has used of the model's bounds
  \* ---- Part E: one call of a text function
  t_fn,         \* which function is called
  t_in,         \* its arguments
  t_pc,         \* "called" | "returned"
  t_out,        \* what it returned
  \* ---- Part F: one call of fetchSapPackages()
  f_pc,         \* "limiter" | "fetch" | "returned" | "thrown"
  f_term,       \* which searchTerm the for loop is at (1-based)
  f_from,       \* let from
  f_hasMore,    \* let hasMore
  f_sapPackages, \* const sapPackages
  f_requests,   \* the searches sent to the registry, in order
  f_answers,    \* the pages the registry answered with, in order
  f_result,     \* what the call returned
  \* ---- Part G: the follower loop of the check script
  fl_followers, \* the followers fetched, and which have a conversation
  fl_idx,       \* which follower the for loop is at (1-based)
  fl_pc,        \* "next" | "download" | "analyse" | "save" | "message" | "done"
  fl_check,     \* const checkResults of the follower the loop is at
  fl_progress,  \* progress.json: follower -> the checkResults saved
  fl_failed     \* the followers whose avatar download or analysis threw

avVars == <<av_pc, av_image, av_alpha2, av_data, av_info, av_result>>

scnVars == <<proc, postedIds, file, lastPostTime, now, timer, cyc,
             posted, failed, lastAttemptEnd, budget>>

pollVars == <<pl_bot, pl_main, pl_runs, pl_due, pl_first, pl_event>>

botVars == <<b_bot, b_proc, b_ids, b_file, b_notFound, b_nfFile, b_last, b_now,
             b_timer, b_cyc, b_posted, b_lastSuccess, b_fetchFailed, b_caught,
             b_notOk, b_budget>>

textVars == <<t_fn, t_in, t_pc, t_out>>

fetchVars == <<f_pc, f_term, f_from, f_hasMore, f_sapPackages, f_requests,
               f_answers, f_result>>

folVars == <<fl_followers, fl_idx, fl_pc, fl_check, fl_progress, fl_failed>>

vars == <<avVars, scnVars, pollVars, botVars, textVars, fetchVars, folVars>>

\* A step of one part leaves the other parts alone.
AvOnly == UNCHANGED <<scnVars, pollVars, botVars, textVars, fetchVars, folVars>>

ScnOnly == UNCHANGED <<avVars, pollVars, botVars, textVars, fetchVars, folVars>>

PollOnly == UNCHANGED <<avVars, scnVars, botVars, textVars, fetchVars, folVars>>

BotOnly == UNCHANGED <<avVars, scnVars, pollVars, textVars, fetchVars, folVars>>

TextOnly == UNCHANGED <<avVars, scnVars, pollVars, botVars, fetchVars, folVars>>

FetchOnly == UNCHANGED <<avVars, scnVars, pollVars, botVars, textVars, folVars>>

FolOnly == UNCHANGED <<avVars, scnVars, pollVars, botVars, textVars, fetchVars>>

(***************************************************************************)
(* Part A.  isDefaultAvatar                                                *)
(***************************************************************************)

\* Number of pixels of the resized image (50 x 50 in the code; the model
\* keeps the grid small).
NumPixels == 4

\* Largest channel value of the model (255 in an 8-bit buffer).
MaxByte == 1

\* The share, in percent, the most common colour key has to exceed.
DefaultAvatarThreshold == 75

\* Reading past the end of a Buffer yields undefined.
Undefined == -1

Byte == 0..MaxByte

Max(S) == CHOOSE m \in S : \A x \in S : x <= m

\* sharp delivers 1 (grey), 2 (grey+alpha), 3 (RGB) or 4 (RGBA) channels.
ChannelCounts == 1..4

HasAlpha(channels) == channels \in {2, 4}

\* The colour values one pixel can have in the model.
PixelValues(channels) ==
  IF channels <= 2 THEN {<<0>>, <<1>>}
  ELSE {<<0, 0, 0>>, <<1, 0, 0>>, <<0, 0, 1>>}

NoAlpha == [i \in 1..NumPixels |-> 0]

\* Every image buffer the model feeds to isDefaultAvatar.
Images ==
  {[decodable |-> FALSE, channels |-> 0, pixels |-> <<>>, alpha |-> <<>>]}
  \cup
  UNION {
    {[decodable |-> TRUE, channels |-> c, pixels |-> p, alpha |-> a] :
       p \in [1..NumPixels -> PixelValues(c)],
       a \in (IF HasAlpha(c) THEN [1..NumPixels -> Byte] ELSE {NoAlpha})}
    : c \in ChannelCounts }

\* raw(): pixels left to right, the channels of a pixel side by side.
RECURSIVE RawFrom(_, _, _, _)
RawFrom(pixels, alpha, channels, i) ==
  IF i > Len(pixels) THEN <<>>
  ELSE pixels[i]
       \o (IF HasAlpha(channels) THEN <<alpha[i]>> ELSE <<>>)
       \o RawFrom(pixels, alpha, channels, i + 1)

RawBuffer(pixels, alpha, channels) == RawFrom(pixels, alpha, channels, 1)

\* sharp(imageBuffer).resize(..).raw().toBuffer({resolveWithObject: true})
SharpToBuffer(image, alpha) ==
  IF image.decodable
  THEN [ok |-> TRUE,
        data |-> RawBuffer(image.pixels, alpha, image.channels),
        info |-> [pixels |-> Len(image.pixels), channels |-> image.channels]]
  ELSE [ok |-> FALSE, data |-> <<>>, info |-> [pixels |-> 0, channels |-> 0]]

\* data[idx], idx counted from 0
DataAt(data, idx) == IF idx < Len(data) THEN data[idx + 1] ELSE Undefined

\* const colorKey = `${red},${green},${blue}`
ColorKey(data, idx) ==
  <<DataAt(data, idx), DataAt(data, idx + 1), DataAt(data, idx + 2)>>

\* for (let idx = 0; idx < data.length; idx += info.channels)
LoopIndexes(data, channels) ==
  {idx \in 0..(Len(data) - 1) : idx % channels = 0}

\* colorCounts[colorKey] = (colorCounts[colorKey] || 0) + 1
ColorCounts(data, channels) ==
  LET idxs == LoopIndexes(data, channels)
      keys == {ColorKey(data, idx) : idx \in idxs}
  IN  [k \in keys |-> Cardinality({idx \in idxs : ColorKey(data, idx) = k})]

\* Math.max(...Object.values(colorCounts))
MostCommonColorCount(colorCounts) ==
  Max({colorCounts[k] : k \in DOMAIN colorCounts})

\* (mostCommonColorCount / totalPixels) * 100 > 75.  The quotient is exact
\* at the boundary (3/4), so the comparison is the integer one.
ExceedsThreshold(count, totalPixels) ==
  count * 100 > DefaultAvatarThreshold * totalPixels

\* The synchronous part of isDefaultAvatar after the await.
Classify(data, info) ==
  ExceedsThreshold(MostCommonColorCount(ColorCounts(data, info.channels)),
                   info.pixels)

\* catch (error) { throw new Error(...) }
CatchSwallow == "resolved"

CatchOutcome == "rejected"

AvInit ==
  /\ av_image \in Images
  /\ av_alpha2 \in (IF av_image.decodable /\ HasAlpha(av_image.channels)
                    THEN {[av_image.alpha EXCEPT ![i] = (@ + 1) % (MaxByte + 1)] :
                            i \in 1..NumPixels}
                         \cup {av_image.alpha}
                    ELSE {av_image.alpha})
  /\ av_pc = "called"
  /\ av_data = <<>>
  /\ av_info = [pixels |-> 0, channels |-> 0]
  /\ av_result = "none"

\* await resizedImage.raw().toBuffer(...) resolves
AvDecode ==
  /\ av_pc = "called"
  /\ SharpToBuffer(av_image, av_image.alpha).ok
  /\ av_data' = SharpToBuffer(av_image, av_image.alpha).data
  /\ av_info' = SharpToBuffer(av_image, av_image.alpha).info
  /\ av_pc' = "decoded"
  /\ UNCHANGED <<av_image, av_alpha2, av_result>>
  /\ AvOnly

\* await resizedImage.raw().toBuffer(...) rejects: the catch block runs
AvDecodeError ==
  /\ av_pc = "called"
  /\ ~SharpToBuffer(av_image, av_image.alpha).ok
  /\ av_pc' = CatchOutcome
  /\ av_result' = IF CatchOutcome = "resolved" THEN FALSE ELSE "none"
  /\ UNCHANGED <<av_image, av_alpha2, av_data, av_info>>
  /\ AvOnly

\* the counting loop and the return
AvClassify ==
  /\ av_pc = "decoded"
  /\ av_result' = Classify(av_data, av_info)
  /\ av_pc' = "resolved"
  /\ UNCHANGED <<av_image, av_alpha2, av_data, av_info>>
  /\ AvOnly

AvNext == AvDecode \/ AvDecodeError \/ AvClassify

\* Part A at rest, for the specifications of the other parts.
AvIdle ==
  /\ av_image = [decodable |-> FALSE, channels |-> 0, pixels |-> <<>>, alpha |-> <<>>]
  /\ av_alpha2 = <<>>
  /\ av_pc = "rejected"
  /\ av_data = <<>>
  /\ av_info = [pixels |-> 0, channels |-> 0]
  /\ av_result = "none"

(***************************************************************************)
(* Part B.  The SCN bot                                                    *)
(***************************************************************************)

\* const CHECK_INTERVAL = 60 * 60 * 1000
CHECK_INTERVAL == 3600000

\* const RATE_LIMIT_INTERVAL = 30 * 1000
RATE_LIMIT_INTERVAL == 30000

\* const maxTitleLength = 290 - baseText.length
TITLE_BUDGET == 290

\* if (rt.text.length > 300)
POST_LIMIT == 300

\* The app.bsky.feed.post lexicon: text of at most 300 graphemes.
BLUESKY_MAX_GRAPHEMES == 300

\* Concurrent invocations of checkFeeds the model follows.
NumSlots == 2

\* Calls of checkFeeds (the initial ones and the timer's) the model follows.
MaxCycles == 3

\* Clock steps that are not jumps to a due timer.
MaxSmallSteps == 1

\* Posts of one key Bluesky accepts in the model.
MaxPostsPerKey == 3

\* Times the process is killed and started again.
MaxRestarts == 1

\* tempPostedIds[id] = null: the value of a key that has no post uri (a
\* record, so that it can be compared with the uris of PostUri).
Null == [item |-> <<0, "null">>, n |-> 0]

Slots == 1..NumSlots

\* ---------------------------------------------------------------- strings
\* A JavaScript string is the sequence of its UTF-16 code units.  Literal
\* text is "c"; an emoji is a surrogate pair "E1", "E2".

Str(n, ch) == [i \in 1..n |-> ch]

Lit(n) == Str(n, "c")

Emoji == <<"E1", "E2">>

Ellipsis == <<"...">>

Min2(a, b) == IF a < b THEN a ELSE b

Max2(a, b) == IF a > b THEN a ELSE b

\* String.prototype.slice(start, end): a negative index counts from the end.
Slice(s, start, end) ==
  LET len  == Len(s)
      from == IF start < 0 THEN Max2(len + start, 0) ELSE Min2(start, len)
      to   == IF end < 0 THEN Max2(len + end, 0) ELSE Min2(end, len)
  IN  IF to > from THEN SubSeq(s, from + 1, to) ELSE <<>>

\* s ends with the text t.
EndsWith(s, t) ==
  Len(s) >= Len(t) /\ SubSeq(s, Len(s) - Len(t) + 1, Len(s)) = t

\* What Bluesky counts: a surrogate pair is one grapheme.
Graphemes(s) == Len(s) - Cardinality({i \in 1..Len(s) : s[i] = "E2"})

\* ------------------------------------------------------------------ feeds
\* RSS_FEED_URLS: 1 = technology-blog-sap, 2 = technology-blog-members
RSS_FEED_URLS == <<1, 2>>

\* The items the feeds of the model can hold.
ItemA == [id |-> "a", title |-> Str(40, "t"), link |-> Str(100, "l"),
          author |-> Str(10, "a")]

ItemB == [id |-> "b", title |-> Str(400, "t"), link |-> Str(100, "l"),
          author |-> <<>>]

ItemC == [id |-> "c", title |-> Str(300, "t"), link |-> Str(280, "l"),
          author |-> Str(10, "a")]

\* What a fetch of a feed can return (newest item first).
FeedSnapshots(feedUrl) ==
  IF feedUrl = 1 THEN {<<ItemA>>, <<ItemB, ItemA>>} ELSE {<<ItemC>>}

\* const uniqueId = `${feedUrl}::${id}`
UniqueId(feedUrl, item) == <<feedUrl, item.id>>

Keys == {<<1, "a">>, <<1, "b">>, <<2, "c">>}

\* The items taken in feed order.
ReverseNot(s) == s

\* feedItems.reverse()
RECURSIVE Reverse(_)
Reverse(s) == IF s = <<>> THEN <<>> ELSE Reverse(Tail(s)) \o <<Head(s)>>

\* ---------------------------------------------------------- posted_ids.json
AbsentFile == [kind |-> "absent", ids |-> <<>>, map |-> <<>>]

\* JSON.stringify(postedIds, null, 2)
Stringify(map) == [kind |-> "object", ids |-> <<>>, map |-> map]

LegacyFile(ids) == [kind |-> "array", ids |-> ids, map |-> <<>>]

EmptyMap == [k \in {} |-> Null]

\* The old array format taken for no record at all.
LoadPostedIdsObjectOnly(f) == IF f.kind = "object" THEN f.map ELSE EmptyMap

\* lines 67-78: JSON.parse, and the conversion of the old array format
LoadPostedIds(f) ==
  IF f.kind = "absent" THEN EmptyMap
  ELSE IF f.kind = "array"
       THEN [k \in {f.ids[i] : i \in 1..Len(f.ids)} |-> Null]
       ELSE f.map

\* lines 79-81: a missing file is created
FileAfterLoad(f) == IF f.kind = "absent" THEN Stringify(EmptyMap) ELSE f

\* --------------------------------------------------------------- the post
\* item['dc:creator'] || item['creator'] || 'Unknown Author'
Author(item) == IF item.author = <<>> THEN Lit(14) ELSE item.author

BlogSource(feedUrl) ==
  IF feedUrl = 1 THEN Lit(6) ELSE IF feedUrl = 2 THEN Lit(10) ELSE <<>>

\* `<emoji> Post by ${author} (${blogSource}):\n"`
TextHead(feedUrl, item) ==
  Emoji \o Lit(9) \o Author(item) \o Lit(2) \o BlogSource(feedUrl) \o Lit(4)

\* `"\n<emoji> Link: ${item.link}`
TextTail(item) == Lit(2) \o Emoji \o Lit(7) \o item.link

BaseText(feedUrl, item) == TextHead(feedUrl, item) \o TextTail(item)

MaxTitleLength(feedUrl, item) == TITLE_BUDGET - Len(BaseText(feedUrl, item))

TruncatedTitle(feedUrl, item) ==
  IF Len(item.title) > MaxTitleLength(feedUrl, item)
  THEN Slice(item.title, 0, MaxTitleLength(feedUrl, item) - 1) \o Ellipsis
  ELSE item.title

PostText(feedUrl, item) ==
  TextHead(feedUrl, item) \o TruncatedTitle(feedUrl, item) \o TextTail(item)

NoEmbed == [uri |-> <<>>, title |-> <<>>]

\* The post without the fallback to an embed.
ComposePostTextOnly(feedUrl, item) ==
  [text |-> PostText(feedUrl, item), embed |-> NoEmbed]

\* lines 171-190: what is handed to agent.post
ComposePost(feedUrl, item) ==
  IF Len(PostText(feedUrl, item)) > POST_LIMIT
  THEN [text  |-> TextHead(feedUrl, item) \o item.title \o Lit(1),
        embed |-> [uri |-> item.link, title |-> item.title]]
  ELSE [text |-> PostText(feedUrl, item), embed |-> NoEmbed]

NoRequest == [text |-> <<>>, embed |-> NoEmbed]

\* ------------------------------------------------------------- checkFeeds
IdleCycle ==
  [pc |-> "idle", initial |-> FALSE, feed |-> 0, fetched |-> <<>>,
   items |-> <<>>, idx |-> 0, wakeAt |-> 0, req |-> NoRequest,
   attempted |-> {}, passed |-> {}]

\* checkFeeds is called: up to await fetch(feedUrl) of the first feed
StartCycle(initial) ==
  [IdleCycle EXCEPT !.pc = "fetch", !.initial = initial, !.feed = 1]

KeyAt(c, j) == UniqueId(RSS_FEED_URLS[c.feed], c.items[j])

\* if (postedIds.hasOwnProperty(uniqueId)) continue
FirstUnposted(c, from, ids) ==
  LET open == {j \in from..Len(c.items) : KeyAt(c, j) \notin DOMAIN ids}
  IN  IF open = {} THEN Len(c.items) + 1
      ELSE CHOOSE j \in open : \A k \in open : j <= k

\* lines 134-142: the wait the rate limit asks for (0 = none)
WaitTime(clock, last) ==
  IF clock - last < RATE_LIMIT_INTERVAL
  THEN RATE_LIMIT_INTERVAL - (clock - last)
  ELSE 0

\* The for loop over feedItems from index `from`, up to its next await or to
\* the return of checkFeeds.
LoopFrom(c, from, ids, last, clock) ==
  LET j    == FirstUnposted(c, from, ids)
      seen == c.passed \cup {KeyAt(c, i) : i \in from..(j - 1)}
  IN  IF j <= Len(c.items)
      THEN IF WaitTime(clock, last) > 0
           THEN [c EXCEPT !.pc = "sleep", !.idx = j, !.passed = seen,
                          !.wakeAt = clock + WaitTime(clock, last),
                          !.req = NoRequest]
           ELSE [c EXCEPT !.pc = "facets", !.idx = j, !.passed = seen,
                          !.wakeAt = 0, !.req = NoRequest]
      ELSE IF c.feed < Len(RSS_FEED_URLS)
           THEN [c EXCEPT !.pc = "fetch", !.feed = c.feed + 1, !.fetched = <<>>,
                          !.items = <<>>, !.idx = 0, !.passed = seen,
                          !.wakeAt = 0, !.req = NoRequest]
           ELSE [IdleCycle EXCEPT !.initial = c.initial]

\* catch (postError) { ...; lastPostTime = Date.now(); continue; }
AfterPostErrorReturn(c, ids, last, clock) == [IdleCycle EXCEPT !.initial = c.initial]

AfterPostError(c, ids, last, clock) == LoopFrom(c, c.idx + 1, ids, last, clock)

\* catch (error) { console.error('Error checking feeds:', error); }
AfterCycleError(c) == [IdleCycle EXCEPT !.initial = c.initial]

\* await checkFeeds(); setInterval(checkFeeds, CHECK_INTERVAL);
\* A slot that came to rest: the initial check arms the timer.
Settle(c, clock, t) ==
  IF c.pc = "idle" /\ c.initial
  THEN [slot |-> IdleCycle, timer |-> clock + CHECK_INTERVAL]
  ELSE [slot |-> c, timer |-> t]

FreeSlots == {s \in Slots : cyc[s].pc = "idle"}

ScnObsUnchanged == UNCHANGED <<posted, failed, lastAttemptEnd>>

\* ------------------------------------------------------------------- main
InitialFiles ==
  {AbsentFile, Stringify(EmptyMap), LegacyFile(<<UniqueId(1, ItemA)>>)}

ScnInit ==
  /\ proc = "boot"
  /\ postedIds = EmptyMap
  /\ file \in InitialFiles
  /\ lastPostTime = 0
  /\ now = CHECK_INTERVAL
  /\ timer = 0
  /\ cyc = [s \in Slots |-> IdleCycle]
  /\ posted = [k \in Keys |-> 0]
  /\ failed = {}
  /\ lastAttemptEnd = -1
  /\ budget = [cycles |-> 0, steps |-> 0, restarts |-> 0]

\* lines 57-92, 245: login, load the posted ids, first call of checkFeeds
ScnStart ==
  /\ proc = "boot"
  /\ budget.cycles < MaxCycles
  /\ budget' = [budget EXCEPT !.cycles = @ + 1]
  /\ proc' = "running"
  /\ postedIds' = LoadPostedIds(file)
  /\ file' = FileAfterLoad(file)
  /\ lastPostTime' = 0
  /\ timer' = 0
  /\ cyc' = [s \in Slots |-> IF s = 1 THEN StartCycle(TRUE) ELSE IdleCycle]
  /\ lastAttemptEnd' = -1
  /\ UNCHANGED <<now, posted, failed>>
  /\ ScnOnly

\* lines 249-251: agent.login rejects
ScnLoginFail ==
  /\ proc = "boot"
  /\ proc' = "failed"
  /\ UNCHANGED <<postedIds, file, lastPostTime, now, timer, cyc, budget>>
  /\ ScnObsUnchanged
  /\ ScnOnly

\* The process is stopped and started again (a deployment, a reboot).
ScnKill ==
  /\ proc \in {"running", "failed"}
  /\ budget.restarts < MaxRestarts
  /\ proc' = "boot"
  /\ cyc' = [s \in Slots |-> IdleCycle]
  /\ timer' = 0
  /\ lastPostTime' = 0
  /\ lastAttemptEnd' = -1
  /\ budget' = [budget EXCEPT !.restarts = @ + 1]
  /\ UNCHANGED <<postedIds, file, now, posted, failed>>
  /\ ScnOnly

\* The interval timer calls checkFeeds.
ScnTimerFire ==
  /\ proc = "running"
  /\ timer # 0
  /\ now >= timer
  /\ budget.cycles < MaxCycles
  /\ FreeSlots # {}
  /\ LET s == CHOOSE x \in FreeSlots : \A y \in FreeSlots : x <= y
     IN  cyc' = [cyc EXCEPT ![s] = StartCycle(FALSE)]
  /\ timer' = timer + CHECK_INTERVAL
  /\ budget' = [budget EXCEPT !.cycles = @ + 1]
  /\ UNCHANGED <<proc, postedIds, file, lastPostTime, now>>
  /\ ScnObsUnchanged
  /\ ScnOnly

\* lines 101-142: the feed arrives and the loop over its items begins
ScnFetchResolve(s) ==
  /\ proc = "running"
  /\ cyc[s].pc = "fetch"
  /\ \E snap \in FeedSnapshots(RSS_FEED_URLS[cyc[s].feed]) :
       LET c0 == [cyc[s] EXCEPT !.fetched = snap, !.items = Reverse(snap)]
           r  == Settle(LoopFrom(c0, 1, postedIds, lastPostTime, now), now, timer)
       IN  /\ cyc' = [cyc EXCEPT ![s] = r.slot]
           /\ timer' = r.timer
  /\ UNCHANGED <<proc, postedIds, file, lastPostTime, now, budget>>
  /\ ScnObsUnchanged
  /\ ScnOnly

\* fetch, response.text() or the parser throws: the outer catch
ScnFetchReject(s) ==
  /\ proc = "running"
  /\ cyc[s].pc = "fetch"
  /\ LET r == Settle(AfterCycleError(cyc[s]), now, timer)
     IN  /\ cyc' = [cyc EXCEPT ![s] = r.slot]
         /\ timer' = r.timer
  /\ UNCHANGED <<proc, postedIds, file, lastPostTime, now, budget>>
  /\ ScnObsUnchanged
  /\ ScnOnly

\* line 141: the setTimeout of the rate limit resolves
ScnWake(s) ==
  /\ proc = "running"
  /\ cyc[s].pc = "sleep"
  /\ now >= cyc[s].wakeAt
  /\ cyc' = [cyc EXCEPT ![s].pc = "facets", ![s].wakeAt = 0]
  /\ UNCHANGED <<proc, postedIds, file, lastPostTime, now, timer, budget>>
  /\ ScnObsUnchanged
  /\ ScnOnly

\* lines 169-207: detectFacets resolves and agent.post is called
ScnCallPost(s) ==
  /\ proc = "running"
  /\ cyc[s].pc = "facets"
  /\ cyc' = [cyc EXCEPT
       ![s].pc = "post",
       ![s].req = ComposePost(RSS_FEED_URLS[cyc[s].feed], cyc[s].items[cyc[s].idx]),
       ![s].attempted = @ \cup {KeyAt(cyc[s], cyc[s].idx)}]
  /\ UNCHANGED <<proc, postedIds, file, lastPostTime, now, timer, budget>>
  /\ ScnObsUnchanged
  /\ ScnOnly

\* detectFacets rejects: the outer catch
ScnFacetsReject(s) ==
  /\ proc = "running"
  /\ cyc[s].pc = "facets"
  /\ LET r == Settle(AfterCycleError(cyc[s]), now, timer)
     IN  /\ cyc' = [cyc EXCEPT ![s] = r.slot]
         /\ timer' = r.timer
  /\ UNCHANGED <<proc, postedIds, file, lastPostTime, now, budget>>
  /\ ScnObsUnchanged
  /\ ScnOnly

\* postResponse.uri: Bluesky names every post it accepts differently
PostUri(key, n) == [item |-> key, n |-> n]

\* const blueskyPostId = postResponse.uri
RecordedValue(uri) == uri

\* fs.writeFileSync(POSTED_IDS_FILE, JSON.stringify(postedIds, null, 2))
SaveNothing(f, ids) == f

SavePostedIds(f, ids) == Stringify(ids)

\* lines 210-223: agent.post resolves
ScnPostResolve(s) ==
  /\ proc = "running"
  /\ cyc[s].pc = "post"
  /\ Graphemes(cyc[s].req.text) <= BLUESKY_MAX_GRAPHEMES
  /\ posted[KeyAt(cyc[s], cyc[s].idx)] < MaxPostsPerKey
  /\ LET key == KeyAt(cyc[s], cyc[s].idx)
         uri == PostUri(key, posted[key] + 1)
         ids == [k \in DOMAIN postedIds \cup {key} |->
                   IF k = key THEN RecordedValue(uri) ELSE postedIds[k]]
         r   == Settle(LoopFrom(cyc[s], cyc[s].idx + 1, ids, now, now), now, timer)
     IN  /\ posted' = [posted EXCEPT ![key] = @ + 1]
         /\ lastPostTime' = now
         /\ postedIds' = ids
         /\ file' = SavePostedIds(file, ids)
         /\ cyc' = [cyc EXCEPT ![s] = r.slot]
         /\ timer' = r.timer
  /\ lastAttemptEnd' = now
  /\ UNCHANGED <<proc, now, failed, budget>>
  /\ ScnOnly

\* lines 224-236: agent.post rejects
ScnPostReject(s) ==
  /\ proc = "running"
  /\ cyc[s].pc = "post"
  /\ LET key == KeyAt(cyc[s], cyc[s].idx)
         r   == Settle(AfterPostError(cyc[s], postedIds, now, now), now, timer)
     IN  /\ failed' = failed \cup {key}
         /\ cyc' = [cyc EXCEPT ![s] = r.slot]
         /\ timer' = r.timer
  /\ lastPostTime' = now
  /\ lastAttemptEnd' = now
  /\ UNCHANGED <<proc, postedIds, file, now, posted, budget>>
  /\ ScnOnly

\* ------------------------------------------------------------------ clock
\* The times at which a timer of the process is due.
DueTimes ==
  {cyc[s].wakeAt : s \in {x \in Slots : cyc[x].pc = "sleep"}}
  \cup (IF timer # 0 /\ budget.cycles < MaxCycles THEN {timer} ELSE {})

\* Time passes, but not past a due timer: by a third of the rate-limit
\* interval, or up to the next due timer.
ScnTick ==
  /\ proc = "running"
  /\ \A t \in DueTimes : now < t
  /\ \/ /\ budget.steps < MaxSmallSteps
        /\ \A t \in DueTimes : now + (RATE_LIMIT_INTERVAL \div 3) <= t
        /\ now' = now + (RATE_LIMIT_INTERVAL \div 3)
        /\ budget' = [budget EXCEPT !.steps = @ + 1]
     \/ /\ DueTimes # {}
        /\ now' = CHOOSE t \in DueTimes : \A u \in DueTimes : t <= u
        /\ UNCHANGED budget
  /\ UNCHANGED <<proc, postedIds, file, lastPostTime, timer, cyc>>
  /\ ScnObsUnchanged
  /\ ScnOnly

ScnNext ==
  \/ ScnStart
  \/ ScnLoginFail
  \/ ScnKill
  \/ ScnTimerFire
  \/ ScnTick
  \/ \E s \in Slots :
       \/ ScnFetchResolve(s)
       \/ ScnFetchReject(s)
       \/ ScnWake(s)
       \/ ScnCallPost(s)
       \/ ScnFacetsReject(s)
       \/ ScnPostResolve(s)
       \/ ScnPostReject(s)

\* Part B at rest, for the specifications of the other parts.
ScnIdle ==
  /\ proc = "failed"
  /\ postedIds = EmptyMap
  /\ file = AbsentFile
  /\ lastPostTime = 0
  /\ now = 0
  /\ timer = 0
  /\ cyc = [s \in Slots |-> IdleCycle]
  /\ posted = [k \in Keys |-> 0]
  /\ failed = {}
  /\ lastAttemptEnd = -1
  /\ budget = [cycles |-> 0, steps |-> 0, restarts |-> 0]

(***************************************************************************)
(* Part C.  The scheduling of the polling bots                             *)
(***************************************************************************)

Bots == {"scn", "npm", "ui5", "reddit"}

\* npm bot: const CHECK_INTERVAL = 60 * 60 * 1000
NPM_CHECK_INTERVAL == 3600000

\* UI5 bot: const CHECK_INTERVAL = 60 * 60 * 1000
UI5_CHECK_INTERVAL == 3600000

\* Reddit bot: const CHECK_INTERVAL = 5 * 60 * 1000
REDDIT_CHECK_INTERVAL == 300000

\* Invocations of a check function in progress at once the model follows.
MaxOverlap == 2

\* The clock of Part C moves by this fraction of the check interval.
TicksPerInterval == 3

\* setInterval(check, CHECK_INTERVAL) of each bot
CheckInterval(bot) ==
  CASE bot = "scn" -> CHECK_INTERVAL
    [] bot = "npm" -> NPM_CHECK_INTERVAL
    [] bot = "ui5" -> UI5_CHECK_INTERVAL
    [] bot = "reddit" -> REDDIT_CHECK_INTERVAL

PollStep(bot) == CheckInterval(bot) \div TicksPerInterval

\* The check function has no try/catch of its own: main's catch would run.
MainAfterCheckUncaught(main, outcome) ==
  IF main = "initial"
  THEN IF outcome = "caught" THEN "failed" ELSE "scheduled"
  ELSE main

\* await check(); setInterval(check, CHECK_INTERVAL): the check function
\* catches its own errors, so the await never throws.
MainAfterCheck(main, outcome) ==
  IF main = "initial" THEN "scheduled" ELSE main

PlInit ==
  /\ pl_bot \in Bots
  /\ pl_main = "login"
  /\ pl_runs = 0
  /\ pl_due = 0
  /\ pl_first = "none"
  /\ pl_event = "none"

\* agent.login resolves; the first check is called and awaited
PlLogin ==
  /\ pl_main = "login"
  /\ pl_main' = "initial"
  /\ pl_runs' = 1
  /\ pl_event' = "start"
  /\ UNCHANGED <<pl_bot, pl_due, pl_first>>
  /\ PollOnly

\* agent.login rejects: main's catch logs, nothing is scheduled
PlLoginFail ==
  /\ pl_main = "login"
  /\ pl_main' = "failed"
  /\ UNCHANGED <<pl_bot, pl_runs, pl_due, pl_first, pl_event>>
  /\ PollOnly

\* An invocation of the check function ends: it returns after its loop, or
\* its catch block logs the error and it returns.
PlCheckEnds(outcome) ==
  /\ pl_main \in {"initial", "scheduled"}
  /\ pl_runs > 0
  /\ pl_runs' = pl_runs - 1
  /\ pl_event' = outcome
  /\ pl_main' = MainAfterCheck(pl_main, outcome)
  /\ pl_first' = IF pl_main = "initial" THEN outcome ELSE pl_first
  /\ pl_due' = IF pl_main = "initial" /\ pl_main' = "scheduled"
               THEN CheckInterval(pl_bot)
               ELSE pl_due
  /\ UNCHANGED pl_bot
  /\ PollOnly

PlCheckReturns == PlCheckEnds("return")

PlCheckCatches == PlCheckEnds("caught")

\* Time passes while the timer is not due.
PlTick ==
  /\ pl_main = "scheduled"
  /\ pl_due > 0
  /\ pl_due' = IF pl_due > PollStep(pl_bot) THEN pl_due - PollStep(pl_bot) ELSE 0
  /\ UNCHANGED <<pl_bot, pl_main, pl_runs, pl_first, pl_event>>
  /\ PollOnly

\* The interval timer calls the check function, whatever is in progress.
PlTimerFire ==
  /\ pl_main = "scheduled"
  /\ pl_due = 0
  /\ pl_runs < MaxOverlap
  /\ pl_runs' = pl_runs + 1
  /\ pl_event' = "start"
  /\ pl_due' = CheckInterval(pl_bot)
  /\ UNCHANGED <<pl_bot, pl_main, pl_first>>
  /\ PollOnly

PlNext ==
  \/ PlLogin
  \/ PlLoginFail
  \/ PlCheckReturns
  \/ PlCheckCatches
  \/ PlTick
  \/ PlTimerFire

\* Part C at rest, for the specifications of the other parts.
PlIdle ==
  /\ pl_bot = "scn"
  /\ pl_main = "failed"
  /\ pl_runs = 0
  /\ pl_due = 0
  /\ pl_first = "none"
  /\ pl_event = "none"

(***************************************************************************)
(* Part D.  The npm, UI5 and Reddit bots                                   *)
(***************************************************************************)

\* const BLUESKY_RATE_LIMIT_INTERVAL = 1000 (the same in the three bots)
BLUESKY_RATE_LIMIT_INTERVAL == 1000

\* Calls of the check function (the initial ones and the timer's).
MaxBotCycles == 3

\* Clock steps that are not jumps to a due timer.
MaxBotSteps == 1

\* Times the process is killed and started again.
MaxBotRestarts == 1

\* Posts of one identifier Bluesky accepts in the model.
MaxBotPosts == 2

PostBots == {"npm", "ui5", "reddit"}

\* What the outer loop of the check function goes through: the one package
\* list (npm), UI5_VERSIONS (UI5), SUBREDDITS (Reddit).
Sources(bot) ==
  CASE bot = "npm" -> <<"all">>
    [] bot = "ui5" -> <<"SAPUI5", "OpenUI5">>
    [] bot = "reddit" -> <<"SAP", "abap", "sapui5">>

\* What the fetch of a source can deliver: package names (allPackages), the
\* versions named by the items of the RSS feed, the ids of subreddit.getNew.
Snapshots(bot, src) ==
  CASE bot = "npm" -> {<<"p", "q">>}
    [] bot = "ui5" /\ src = "SAPUI5" -> {<<"1.0.1">>, <<"1.0.2", "1.0.1">>}
    [] bot = "ui5" /\ src = "OpenUI5" -> {<<"1.0.1">>}
    [] bot = "reddit" /\ src = "SAP" -> {<<"x">>, <<"y", "x">>}
    [] OTHER -> {<<>>}

\* data['dist-tags'].latest of a registry response that is ok; "none" when
\* the response has no latest version.
RegistryVersions(pkg) ==
  IF pkg = "p" THEN {"1.0.0", "2.0.0"} ELSE {"1.0.0", "none"}

\* `${pkgName}@${latestVersion}`, postedVersions[type][latestVersion], post.id
ItemId(bot, src, name, ver) ==
  CASE bot = "npm" -> <<name, ver>>
    [] bot = "ui5" -> <<src, name>>
    [] bot = "reddit" -> <<"reddit", name>>

BotIds(bot) ==
  CASE bot = "npm" -> {"p", "q"} \X {"1.0.0", "2.0.0"}
    [] bot = "ui5" -> {"SAPUI5", "OpenUI5"} \X {"1.0.1", "1.0.2"}
    [] bot = "reddit" -> {"reddit"} \X {"x", "y"}

AllBotIds == BotIds("npm") \cup BotIds("ui5") \cup BotIds("reddit")

\* What is stored under an identifier: the post uri (npm), an object with
\* the post uri (UI5), membership of the Set (Reddit).
BotRecordedValue(bot, uri) ==
  CASE bot = "npm" -> uri
    [] bot = "ui5" -> [blueskyPostId |-> uri]
    [] bot = "reddit" -> [member |-> TRUE]

\* The posted file is read if it exists, and created if it does not.
BotLoadPosted(f) == IF f.kind = "absent" THEN EmptyMap ELSE f.map

BotFileAfterLoad(f) == IF f.kind = "absent" THEN Stringify(EmptyMap) ELSE f

\* fs.writeFileSync(POSTED_IDS_FILE, JSON.stringify(...))
BotSavePosted(f, ids) == Stringify(ids)

\* not_found_packages.json: read if it exists
AbsentSet == [kind |-> "absent", set |-> {}]

StringifySet(set) == [kind |-> "array", set |-> set]

LoadNotFound(f) == IF f.kind = "absent" THEN {} ELSE f.set

\* ------------------------------------------------------ the check function
BotIdleCycle ==
  [pc |-> "idle", initial |-> FALSE, src |-> 0, items |-> <<>>, idx |-> 0,
   ver |-> "none", wakeAt |-> 0, notOk |-> {}]

BotStartCycle(initial) ==
  [BotIdleCycle EXCEPT !.pc = "list", !.initial = initial, !.src = 1]

\* The identifier of the item the cycle is at.
BotKeyAt(bot, c) == ItemId(bot, Sources(bot)[c.src], c.items[c.idx], c.ver)

\* The rate limit before a post: sleep for the rest of the interval, or go
\* on to detectFacets.
RateGate(c, last, clock) ==
  IF clock - last < BLUESKY_RATE_LIMIT_INTERVAL
  THEN [c EXCEPT !.pc = "sleep",
                 !.wakeAt = clock + (BLUESKY_RATE_LIMIT_INTERVAL - (clock - last))]
  ELSE [c EXCEPT !.pc = "facets", !.wakeAt = 0]

\* The test at the head of the loop body that skips an item: the not-found
\* set (npm), the posted identifiers (UI5, Reddit).
SkippedAtHead(bot, c, j, ids, nf) ==
  IF bot = "npm"
  THEN c.items[j] \in nf
  ELSE ItemId(bot, Sources(bot)[c.src], c.items[j], "none") \in DOMAIN ids

\* The loops of the check function from item `from` of the current source, up
\* to the next await or to the return of the function.
BotLoop(bot, c, from, ids, nf, last, clock) ==
  LET open == {j \in from..Len(c.items) : ~SkippedAtHead(bot, c, j, ids, nf)}
      j    == CHOOSE x \in open : \A y \in open : x <= y
  IN  IF open # {}
      THEN IF bot = "npm"
           THEN [c EXCEPT !.pc = "limiter", !.idx = j, !.ver = "none", !.wakeAt = 0]
           ELSE RateGate([c EXCEPT !.idx = j, !.ver = "none"], last, clock)
      ELSE IF c.src < Len(Sources(bot))
           THEN [c EXCEPT !.pc = "list", !.src = c.src + 1, !.items = <<>>,
                          !.idx = 0, !.ver = "none", !.wakeAt = 0]
           ELSE [BotIdleCycle EXCEPT !.initial = c.initial]

\* After the registry response is in: the test on postedPackages, then the
\* rate limit.
AfterRegistry(c, ver, ids, nf, last, clock) ==
  IF ver = "none" \/ ItemId("npm", "all", c.items[c.idx], ver) \in DOMAIN ids
  THEN BotLoop("npm", c, c.idx + 1, ids, nf, last, clock)
  ELSE RateGate([c EXCEPT !.ver = ver], last, clock)

\* if (!response.ok) { notFoundPackages.add(pkgName); writeFileSync; continue }
NotFoundAdd(nf, pkg) == nf \cup {pkg}

\* After a post was recorded: the next package (npm), or the sleep of
\* BLUESKY_RATE_LIMIT_INTERVAL (UI5, Reddit).
AfterPosted(bot, c, ids, nf, last, clock) ==
  IF bot = "npm"
  THEN BotLoop(bot, c, c.idx + 1, ids, nf, last, clock)
  ELSE [c EXCEPT !.pc = "pause", !.wakeAt = clock + BLUESKY_RATE_LIMIT_INTERVAL]

\* The awaited call is made again instead of the catch being entered.
BotAfterErrorStay(c) == c

\* catch (error) { console.error(...) }: the check function returns
BotAfterError(c) == [BotIdleCycle EXCEPT !.initial = c.initial]

\* The catch has been entered from the loop body, at the item the cycle is at.
Caught(seen, c) == [n |-> seen.n + 1, at |-> seen.at \cup {c.items[c.idx]}]

\* The items of the source are taken as delivered although the response is
\* not ok.
AfterListNotOkGoOn(bot, c, ids, nf, last, clock) ==
  BotLoop(bot, [c EXCEPT !.items = <<"1.0.1">>,
                         !.notOk = @ \cup {Sources(bot)[c.src]}],
          1, ids, nf, last, clock)

\* UI5: if (!response.ok) { console.error(...); continue; } for the RSS feed
\* and for version.json: the next type, or the end of the outer loop.
AfterListNotOk(bot, c, ids, nf, last, clock) ==
  BotLoop(bot, [c EXCEPT !.items = <<>>, !.notOk = @ \cup {Sources(bot)[c.src]}],
          1, ids, nf, last, clock)

\* await check(); setInterval(check, CHECK_INTERVAL)
BotSettle(bot, c, clock, t) ==
  IF c.pc = "idle" /\ c.initial
  THEN [slot |-> BotIdleCycle, timer |-> clock + CheckInterval(bot)]
  ELSE [slot |-> c, timer |-> t]

BotFreeSlots == {s \in Slots : b_cyc[s].pc = "idle"}

BotObsUnchanged ==
  UNCHANGED <<b_posted, b_lastSuccess, b_fetchFailed, b_caught, b_notOk>>

\* ------------------------------------------------------------------- main
BotInit ==
  /\ b_bot \in PostBots
  /\ b_proc = "boot"
  /\ b_ids = EmptyMap
  /\ b_file \in {AbsentFile, Stringify(EmptyMap)}
  /\ b_notFound = {}
  /\ b_nfFile = AbsentSet
  /\ b_last = 0
  /\ b_now = CheckInterval(b_bot)
  /\ b_timer = 0
  /\ b_cyc = [s \in Slots |-> BotIdleCycle]
  /\ b_posted = [k \in AllBotIds |-> 0]
  /\ b_lastSuccess = -1
  /\ b_fetchFailed = {}
  /\ b_caught = [n |-> 0, at |-> {}]
  /\ b_notOk = 0
  /\ b_budget = [cycles |-> 0, steps |-> 0, restarts |-> 0]

\* login, the files are loaded, the first check is called
BotStart ==
  /\ b_proc = "boot"
  /\ b_budget.cycles < MaxBotCycles
  /\ b_budget' = [b_budget EXCEPT !.cycles = @ + 1]
  /\ b_proc' = "running"
  /\ b_ids' = BotLoadPosted(b_file)
  /\ b_file' = BotFileAfterLoad(b_file)
  /\ b_notFound' = LoadNotFound(b_nfFile)
  /\ b_last' = 0
  /\ b_timer' = 0
  /\ b_cyc' = [s \in Slots |-> IF s = 1 THEN BotStartCycle(TRUE) ELSE BotIdleCycle]
  /\ b_lastSuccess' = -1
  /\ UNCHANGED <<b_bot, b_nfFile, b_now, b_posted, b_fetchFailed, b_caught,
                 b_notOk>>
  /\ BotOnly

\* agent.login rejects: main's catch
BotLoginFail ==
  /\ b_proc = "boot"
  /\ b_proc' = "failed"
  /\ UNCHANGED <<b_bot, b_ids, b_file, b_notFound, b_nfFile, b_last, b_now,
                 b_timer, b_cyc, b_budget>>
  /\ BotObsUnchanged
  /\ BotOnly

\* The process is stopped and started again.
BotKill ==
  /\ b_proc \in {"running", "failed"}
  /\ b_budget.restarts < MaxBotRestarts
  /\ b_proc' = "boot"
  /\ b_cyc' = [s \in Slots |-> BotIdleCycle]
  /\ b_timer' = 0
  /\ b_last' = 0
  /\ b_lastSuccess' = -1
  /\ b_budget' = [b_budget EXCEPT !.restarts = @ + 1]
  /\ UNCHANGED <<b_bot, b_ids, b_file, b_notFound, b_nfFile, b_now, b_posted,
                 b_fetchFailed, b_caught, b_notOk>>
  /\ BotOnly

\* The interval timer calls the check function.
BotTimerFire ==
  /\ b_proc = "running"
  /\ b_timer # 0
  /\ b_now >= b_timer
  /\ b_budget.cycles < MaxBotCycles
  /\ BotFreeSlots # {}
  /\ LET s == CHOOSE x \in BotFreeSlots : \A y \in BotFreeSlots : x <= y
     IN  b_cyc' = [b_cyc EXCEPT ![s] = BotStartCycle(FALSE)]
  /\ b_timer' = b_timer + CheckInterval(b_bot)
  /\ b_budget' = [b_budget EXCEPT !.cycles = @ + 1]
  /\ UNCHANGED <<b_bot, b_proc, b_ids, b_file, b_notFound, b_nfFile, b_last, b_now>>
  /\ BotObsUnchanged
  /\ BotOnly

\* The items of the current source arrive and the inner loop begins.
BotListResolve(s) ==
  /\ b_proc = "running"
  /\ b_cyc[s].pc = "list"
  /\ \E snap \in Snapshots(b_bot, Sources(b_bot)[b_cyc[s].src]) :
       LET c0 == [b_cyc[s] EXCEPT !.items = snap]
           r  == BotSettle(b_bot,
                   BotLoop(b_bot, c0, 1, b_ids, b_notFound, b_last, b_now),
                   b_now, b_timer)
       IN  /\ b_cyc' = [b_cyc EXCEPT ![s] = r.slot]
           /\ b_timer' = r.timer
  /\ UNCHANGED <<b_bot, b_proc, b_ids, b_file, b_notFound, b_nfFile, b_last,
                 b_now, b_budget>>
  /\ BotObsUnchanged
  /\ BotOnly

\* UI5: if (!response.ok) { console.error(...); continue; }
BotListNotOk(s) ==
  /\ b_proc = "running"
  /\ b_bot = "ui5"
  /\ b_cyc[s].pc = "list"
  /\ LET r == BotSettle(b_bot,
                AfterListNotOk(b_bot, b_cyc[s], b_ids, b_notFound, b_last, b_now),
                b_now, b_timer)
     IN  /\ b_cyc' = [b_cyc EXCEPT ![s] = r.slot]
         /\ b_timer' = r.timer
  /\ UNCHANGED <<b_bot, b_proc, b_ids, b_file, b_notFound, b_nfFile, b_last,
                 b_now, b_budget>>
  /\ b_notOk' = b_notOk + 1
  /\ UNCHANGED <<b_posted, b_lastSuccess, b_fetchFailed, b_caught>>
  /\ BotOnly

\* The fetch of the source throws: the catch of the check function
BotListReject(s) ==
  /\ b_proc = "running"
  /\ b_cyc[s].pc = "list"
  /\ LET r == BotSettle(b_bot, BotAfterError(b_cyc[s]), b_now, b_timer)
     IN  /\ b_cyc' = [b_cyc EXCEPT ![s] = r.slot]
         /\ b_timer' = r.timer
  /\ UNCHANGED <<b_bot, b_proc, b_ids, b_file, b_notFound, b_nfFile, b_last,
                 b_now, b_budget>>
  /\ BotObsUnchanged
  /\ BotOnly

\* npm: await npmLimiter.removeTokens(1) resolves and the registry is fetched
BotFetchRegistry(s) ==
  /\ b_proc = "running"
  /\ b_cyc[s].pc = "limiter"
  /\ b_cyc' = [b_cyc EXCEPT ![s].pc = "registry"]
  /\ UNCHANGED <<b_bot, b_proc, b_ids, b_file, b_notFound, b_nfFile, b_last,
                 b_now, b_timer, b_budget>>
  /\ BotObsUnchanged
  /\ BotOnly

\* npm: the registry answers with a status that is not ok
BotRegistryNotOk(s) ==
  /\ b_proc = "running"
  /\ b_cyc[s].pc = "registry"
  /\ LET pkg == b_cyc[s].items[b_cyc[s].idx]
         nf  == NotFoundAdd(b_notFound, pkg)
         r   == BotSettle(b_bot,
                  BotLoop(b_bot, b_cyc[s], b_cyc[s].idx + 1, b_ids, nf, b_last, b_now),
                  b_now, b_timer)
     IN  /\ b_notFound' = nf
         /\ b_nfFile' = StringifySet(nf)
         /\ b_fetchFailed' = b_fetchFailed \cup {pkg}
         /\ b_cyc' = [b_cyc EXCEPT ![s] = r.slot]
         /\ b_timer' = r.timer
  /\ UNCHANGED <<b_bot, b_proc, b_ids, b_file, b_last, b_now, b_budget,
                 b_posted, b_lastSuccess, b_caught, b_notOk>>
  /\ BotOnly

\* npm: the registry answers ok
BotRegistryOk(s) ==
  /\ b_proc = "running"
  /\ b_cyc[s].pc = "registry"
  /\ \E ver \in RegistryVersions(b_cyc[s].items[b_cyc[s].idx]) :
       LET r == BotSettle(b_bot,
                  AfterRegistry(b_cyc[s], ver, b_ids, b_notFound, b_last, b_now),
                  b_now, b_timer)
       IN  /\ b_cyc' = [b_cyc EXCEPT ![s] = r.slot]
           /\ b_timer' = r.timer
  /\ UNCHANGED <<b_bot, b_proc, b_ids, b_file, b_notFound, b_nfFile, b_last,
                 b_now, b_budget>>
  /\ BotObsUnchanged
  /\ BotOnly

\* npm: fetch or response.json() throws: the catch of checkPackages
BotRegistryReject(s) ==
  /\ b_proc = "running"
  /\ b_cyc[s].pc = "registry"
  /\ LET r == BotSettle(b_bot, BotAfterError(b_cyc[s]), b_now, b_timer)
     IN  /\ b_cyc' = [b_cyc EXCEPT ![s] = r.slot]
         /\ b_timer' = r.timer
  /\ b_fetchFailed' = b_fetchFailed \cup {b_cyc[s].items[b_cyc[s].idx]}
  /\ b_caught' = Caught(b_caught, b_cyc[s])
  /\ UNCHANGED <<b_bot, b_proc, b_ids, b_file, b_notFound, b_nfFile, b_last,
                 b_now, b_budget, b_posted, b_lastSuccess, b_notOk>>
  /\ BotOnly

\* The setTimeout of the rate limit resolves.
BotWake(s) ==
  /\ b_proc = "running"
  /\ b_cyc[s].pc = "sleep"
  /\ b_now >= b_cyc[s].wakeAt
  /\ b_cyc' = [b_cyc EXCEPT ![s].pc = "facets", ![s].wakeAt = 0]
  /\ UNCHANGED <<b_bot, b_proc, b_ids, b_file, b_notFound, b_nfFile, b_last,
                 b_now, b_timer, b_budget>>
  /\ BotObsUnchanged
  /\ BotOnly

\* detectFacets resolves and agent.post is called
BotCallPost(s) ==
  /\ b_proc = "running"
  /\ b_cyc[s].pc = "facets"
  /\ b_cyc' = [b_cyc EXCEPT ![s].pc = "post"]
  /\ UNCHANGED <<b_bot, b_proc, b_ids, b_file, b_notFound, b_nfFile, b_last,
                 b_now, b_timer, b_budget>>
  /\ BotObsUnchanged
  /\ BotOnly

\* detectFacets rejects: the catch of the check function
BotFacetsReject(s) ==
  /\ b_proc = "running"
  /\ b_cyc[s].pc = "facets"
  /\ LET r == BotSettle(b_bot, BotAfterError(b_cyc[s]), b_now, b_timer)
     IN  /\ b_cyc' = [b_cyc EXCEPT ![s] = r.slot]
         /\ b_timer' = r.timer
  /\ UNCHANGED <<b_bot, b_proc, b_ids, b_file, b_notFound, b_nfFile, b_last,
                 b_now, b_budget>>
  /\ b_caught' = Caught(b_caught, b_cyc[s])
  /\ UNCHANGED <<b_posted, b_lastSuccess, b_fetchFailed, b_notOk>>
  /\ BotOnly

\* agent.post resolves: lastPostTime, the identifier is recorded and saved
BotPostResolve(s) ==
  /\ b_proc = "running"
  /\ b_cyc[s].pc = "post"
  /\ b_posted[BotKeyAt(b_bot, b_cyc[s])] < MaxBotPosts
  /\ LET key == BotKeyAt(b_bot, b_cyc[s])
         uri == PostUri(key, b_posted[key] + 1)
         ids == [k \in DOMAIN b_ids \cup {key} |->
                   IF k = key THEN BotRecordedValue(b_bot, uri) ELSE b_ids[k]]
         r   == BotSettle(b_bot,
                  AfterPosted(b_bot, b_cyc[s], ids, b_notFound, b_now, b_now),
                  b_now, b_timer)
     IN  /\ b_posted' = [b_posted EXCEPT ![key] = @ + 1]
         /\ b_ids' = ids
         /\ b_file' = BotSavePosted(b_file, ids)
         /\ b_cyc' = [b_cyc EXCEPT ![s] = r.slot]
         /\ b_timer' = r.timer
  /\ b_last' = b_now
  /\ b_lastSuccess' = b_now
  /\ UNCHANGED <<b_bot, b_proc, b_notFound, b_nfFile, b_now, b_budget,
                 b_fetchFailed, b_caught, b_notOk>>
  /\ BotOnly

\* agent.post rejects: the catch of the check function
BotPostReject(s) ==
  /\ b_proc = "running"
  /\ b_cyc[s].pc = "post"
  /\ LET r == BotSettle(b_bot, BotAfterError(b_cyc[s]), b_now, b_timer)
     IN  /\ b_cyc' = [b_cyc EXCEPT ![s] = r.slot]
         /\ b_timer' = r.timer
  /\ UNCHANGED <<b_bot, b_proc, b_ids, b_file, b_notFound, b_nfFile, b_last,
                 b_now, b_budget>>
  /\ b_caught' = Caught(b_caught, b_cyc[s])
  /\ UNCHANGED <<b_posted, b_lastSuccess, b_fetchFailed, b_notOk>>
  /\ BotOnly

\* UI5, Reddit: the sleep after a post resolves
BotPauseEnds(s) ==
  /\ b_proc = "running"
  /\ b_cyc[s].pc = "pause"
  /\ b_now >= b_cyc[s].wakeAt
  /\ LET r == BotSettle(b_bot,
                BotLoop(b_bot, b_cyc[s], b_cyc[s].idx + 1, b_ids, b_notFound,
                        b_last, b_now),
                b_now, b_timer)
     IN  /\ b_cyc' = [b_cyc EXCEPT ![s] = r.slot]
         /\ b_timer' = r.timer
  /\ UNCHANGED <<b_bot, b_proc, b_ids, b_file, b_notFound, b_nfFile, b_last,
                 b_now, b_budget>>
  /\ BotObsUnchanged
  /\ BotOnly

\* The times at which a timer of the process is due.
BotDueTimes ==
  {b_cyc[s].wakeAt : s \in {x \in Slots : b_cyc[x].pc \in {"sleep", "pause"}}}
  \cup (IF b_timer # 0 /\ b_budget.cycles < MaxBotCycles THEN {b_timer} ELSE {})

\* Time passes, but not past a due timer: by half the rate-limit interval, or
\* up to the next due timer.
BotTick ==
  /\ b_proc = "running"
  /\ \A t \in BotDueTimes : b_now < t
  /\ \/ /\ b_budget.steps < MaxBotSteps
        /\ \A t \in BotDueTimes : b_now + (BLUESKY_RATE_LIMIT_INTERVAL \div 2) <= t
        /\ b_now' = b_now + (BLUESKY_RATE_LIMIT_INTERVAL \div 2)
        /\ b_budget' = [b_budget EXCEPT !.steps = @ + 1]
     \/ /\ BotDueTimes # {}
        /\ b_now' = CHOOSE t \in BotDueTimes : \A u \in BotDueTimes : t <= u
        /\ UNCHANGED b_budget
  /\ UNCHANGED <<b_bot, b_proc, b_ids, b_file, b_notFound, b_nfFile, b_last,
                 b_timer, b_cyc>>
  /\ BotObsUnchanged
  /\ BotOnly

BotNext ==
  \/ BotStart
  \/ BotLoginFail
  \/ BotKill
  \/ BotTimerFire
  \/ BotTick
  \/ \E s \in Slots :
       \/ BotListResolve(s)
       \/ BotListNotOk(s)
       \/ BotListReject(s)
       \/ BotFetchRegistry(s)
       \/ BotRegistryNotOk(s)
       \/ BotRegistryOk(s)
       \/ BotRegistryReject(s)
       \/ BotWake(s)
       \/ BotCallPost(s)
       \/ BotFacetsReject(s)
       \/ BotPostResolve(s)
       \/ BotPostReject(s)
       \/ BotPauseEnds(s)

\* Part D at rest, for the specifications of the other parts.
BotIdle ==
  /\ b_bot = "npm"
  /\ b_proc = "failed"
  /\ b_ids = EmptyMap
  /\ b_file = AbsentFile
  /\ b_notFound = {}
  /\ b_nfFile = AbsentSet
  /\ b_last = 0
  /\ b_now = 0
  /\ b_timer = 0
  /\ b_cyc = [s \in Slots |-> BotIdleCycle]
  /\ b_posted = [k \in AllBotIds |-> 0]
  /\ b_lastSuccess = -1
  /\ b_fetchFailed = {}
  /\ b_caught = [n |-> 0, at |-> {}]
  /\ b_notOk = 0
  /\ b_budget = [cycles |-> 0, steps |-> 0, restarts |-> 0]

(***************************************************************************)
(* Part E.  The text functions                                             *)
(***************************************************************************)

\* Tokens an input of stripHtml is put together from.
MaxTokens == 3

\* ------------------------------------------------------------- stripHtml
\* The first index at or after `from` at which s holds ch, 0 if there is none.
IndexOf(s, ch, from) ==
  LET hits == {i \in from..Len(s) : s[i] = ch}
  IN  IF hits = {} THEN 0 ELSE CHOOSE i \in hits : \A j \in hits : i <= j

\* .replace(/<[^>]*>/g, ''): from a '<' up to the first '>' after it
RECURSIVE RemoveTags(_)
RemoveTags(s) ==
  IF s = <<>> THEN <<>>
  ELSE IF Head(s) = "<" /\ IndexOf(s, ">", 2) # 0
       THEN RemoveTags(SubSeq(s, IndexOf(s, ">", 2) + 1, Len(s)))
       ELSE <<Head(s)>> \o RemoveTags(Tail(s))

\* .replace(/pat/g, rep) for a literal pattern
RECURSIVE ReplaceAll(_, _, _)
ReplaceAll(s, pat, rep) ==
  IF Len(s) < Len(pat) THEN s
  ELSE IF SubSeq(s, 1, Len(pat)) = pat
       THEN rep \o ReplaceAll(SubSeq(s, Len(pat) + 1, Len(s)), pat, rep)
       ELSE <<Head(s)>> \o ReplaceAll(Tail(s), pat, rep)

\* What .trim() removes: white space and line terminators (space, tab,
\* line feed, no-break space stand for them).
JsWhiteSpace == {" ", "\t", "\n", "nbsp"}

\* .trim()
RECURSIVE Trim(_)
Trim(s) ==
  IF s = <<>> THEN <<>>
  ELSE IF Head(s) \in JsWhiteSpace THEN Trim(Tail(s))
  ELSE IF s[Len(s)] \in JsWhiteSpace THEN Trim(SubSeq(s, 1, Len(s) - 1))
  ELSE s

EntityNbsp == <<"&", "n", "b", "s", "p", ";">>

EntityAmp == <<"&", "a", "m", "p", ";">>

EntityLt == <<"&", "l", "t", ";">>

EntityGt == <<"&", "g", "t", ";">>

EntityQuot == <<"&", "q", "u", "o", "t", ";">>

\* The chain of replace calls of stripHtml, before trim
StripAndDecode(s) ==
  ReplaceAll(ReplaceAll(ReplaceAll(ReplaceAll(ReplaceAll(
    RemoveTags(s), EntityNbsp, <<" ">>), EntityAmp, <<"&">>), EntityLt, <<"<">>),
    EntityGt, <<">">>), EntityQuot, <<"\"">>)

\* function stripHtml(html): `missing` stands for null and undefined
stripHtml(html) ==
  IF html.missing \/ html.s = <<>> THEN <<>> ELSE Trim(StripAndDecode(html.s))

HtmlTokens ==
  {<<"<">>, <<">">>, <<"x">>, <<" ">>, <<"l", "t", ";">>,
   EntityNbsp, EntityAmp, EntityLt, EntityGt, EntityQuot}

RECURSIVE HtmlStrings(_)
HtmlStrings(n) ==
  IF n = 0 THEN {<<>>}
  ELSE HtmlStrings(n - 1)
       \cup {s \o t : s \in HtmlStrings(n - 1), t \in HtmlTokens}

StripHtmlInputs ==
  {[missing |-> TRUE, s |-> <<>>]}
  \cup {[missing |-> FALSE, s |-> s] : s \in HtmlStrings(MaxTokens)}

\* ------------------------------------------- the post texts of Part D's bots
\* An emoji of part_000 and part_001 as the literal stands in those files.
Emoji4 == Str(4, "m")

Emoji3 == Str(3, "m")

\* The ellipsis the truncation appends, as the literal stands in the file.
EllipsisOf(bot) == IF bot = "npm" THEN Ellipsis ELSE Str(3, "e")

\* npm, line 183
NpmPostText(pkgName, latestVersion) ==
  Emoji \o Lit(16) \o pkgName \o Lit(20) \o latestVersion \o Lit(1)
  \o Emoji \o Lit(52) \o pkgName

\* UI5, lines 162-171
Ui5PostText(type, latestVersion, changeType, previousVersion) ==
  LET compareLink == Lit(54) \o latestVersion \o Lit(9) \o type \o Lit(11)
                     \o previousVersion
      docsLink    == (IF Len(type) = 6 THEN Lit(20) ELSE Lit(24))
                     \o latestVersion \o Lit(3)
  IN  Emoji4 \o Lit(5) \o type \o Lit(19) \o latestVersion \o Lit(14)
      \o changeType \o Lit(1) \o Emoji4 \o Lit(13) \o compareLink \o Lit(1)
      \o Emoji4 \o Lit(16) \o docsLink

\* Reddit, line 91
RedditPostLink(permalink) == Lit(22) \o permalink

\* Reddit, line 97: a post with selftext
RedditEmbedText(subredditName, author, permalink) ==
  Lit(14) \o subredditName \o Lit(6) \o author \o Lit(2) \o Emoji4 \o Lit(7)
  \o RedditPostLink(permalink)

\* Reddit, lines 110-118: a post without selftext
RedditBaseText(subredditName, author) ==
  Lit(14) \o subredditName \o Lit(6) \o author \o Lit(2) \o Emoji3 \o Lit(1)

RedditSuffix(permalink) == Lit(1) \o Emoji4 \o Lit(7) \o RedditPostLink(permalink)

RedditMaxTitleLength(post) ==
  TITLE_BUDGET
  - (Len(RedditBaseText(post.sub, post.author)) + Len(RedditSuffix(post.permalink)))

\* String.prototype.substring(start, end): a negative index counts as 0.
Substring(s, start, end) ==
  LET a  == Min2(Max2(start, 0), Len(s))
      b  == Min2(Max2(end, 0), Len(s))
      lo == Min2(a, b)
      hi == Max2(a, b)
  IN  IF hi > lo THEN SubSeq(s, lo + 1, hi) ELSE <<>>

ThreeDots == Str(3, ".")

RedditTitleKeepAll(post) == post.title

RedditTruncatedTitle(post) ==
  IF Len(post.title) > RedditMaxTitleLength(post)
  THEN Substring(post.title, 0, RedditMaxTitleLength(post) - 3) \o ThreeDots
  ELSE post.title

RedditPostText(post) ==
  RedditBaseText(post.sub, post.author) \o RedditTruncatedTitle(post)
  \o RedditSuffix(post.permalink)

\* const { charactersRemaining } = rt: what the RichText object of the
\* library holds under that name.  The library is not part of the repository;
\* the model leaves open whether the name is absent (undefined), counts
\* graphemes or counts the code units of rt.text.
RichTextReadings == {"absent", "graphemes", "length"}

CharactersRemaining(text, reading) ==
  CASE reading = "absent" -> [defined |-> FALSE, value |-> 0]
    [] reading = "graphemes" ->
         [defined |-> TRUE, value |-> BLUESKY_MAX_GRAPHEMES - Graphemes(text)]
    [] reading = "length" ->
         [defined |-> TRUE, value |-> BLUESKY_MAX_GRAPHEMES - Len(text)]

\* if (charactersRemaining < 0)
\*   rt.setText(rt.text.slice(0, rt.text.length + charactersRemaining - 1) + ellipsis)
\* (undefined < 0 is false)
TruncateToLimit(bot, text, remaining) ==
  IF remaining.defined /\ remaining.value < 0
  THEN Slice(text, 0, Len(text) + remaining.value - 1) \o EllipsisOf(bot)
  ELSE text

\* Lengths of package names (npm allows up to 214 characters).
NpmNameLengths == {10, 99, 100, 101, 102, 110, 214}

NpmVersionLengths == {5, 12}

TruncateTexts ==
  {[bot |-> "npm", text |-> NpmPostText(Str(p, "p"), Str(v, "v"))] :
     p \in NpmNameLengths, v \in NpmVersionLengths}
  \cup {[bot |-> "ui5",
         text |-> Ui5PostText(Str(t, "y"), Str(v, "v"), Str(c, "k"), Str(w, "w"))] :
          t \in {6, 7}, v \in {5, 8}, c \in {5, 15}, w \in {5, 8}}
  \cup {[bot |-> "reddit",
         text |-> RedditEmbedText(Str(s, "r"), Str(a, "a"), Str(l, "l"))] :
          s \in {3, 4, 6}, a \in {3, 20}, l \in {40, 80}}

TruncateInputs ==
  {[bot |-> x.bot, text |-> x.text, reading |-> r] :
     x \in TruncateTexts, r \in RichTextReadings}

\* ------------------------------------------------------ the title truncation
ScnTitleInputs ==
  {[bot |-> "scn", feed |-> f,
    item |-> [id |-> "a", title |-> Str(t, "t"), link |-> Str(l, "l"),
              author |-> Str(a, "a")]] :
     f \in {1, 2}, t \in {0, 1, 100, 139, 140, 141, 142, 143, 400},
     l \in {30, 100, 200, 250}, a \in {0, 10}}

RedditTitleInputs ==
  {[bot |-> "reddit",
    post |-> [sub |-> Str(s, "r"), author |-> Str(a, "a"),
              permalink |-> Str(l, "l"), title |-> Str(t, "t")]] :
     s \in {3, 6}, a \in {3, 20}, l \in {40, 80},
     t \in {1, 100, 150, 160, 170, 180, 190, 200, 300}}

\* The post text with the title, before the RichText object is made of it.
TitlePostText(in) ==
  IF in.bot = "scn" THEN PostText(in.feed, in.item) ELSE RedditPostText(in.post)

\* ------------------------------------------- the previous UI5 version
\* Largest major, minor and patch number of the model's versions.
MaxVersionPart == 2

\* A version string: major.minor.patch, and a prerelease tag or none ("").
Versions ==
  [major : 0..MaxVersionPart, minor : 0..MaxVersionPart,
   patch : 0..MaxVersionPart, pre : {"", "rc"}]

\* `${major}.${minor}.${patch}`
VersionString(major, minor, patch) ==
  [major |-> major, minor |-> minor, patch |-> patch, pre |-> ""]

\* What /Version (\d+\.\d+\.\d+) Changes/ captures from an item's title.
LatestVersions == {v \in Versions : v.pre = ""}

\* The major branch is missing.
ComputedPreviousNoMajor(latest) ==
  IF latest.patch > 0
  THEN [previousVersion |-> VersionString(latest.major, latest.minor, latest.patch - 1),
        changeType |-> "patch"]
  ELSE IF latest.minor > 0
  THEN [previousVersion |-> VersionString(latest.major, latest.minor - 1, 0),
        changeType |-> "minor"]
  ELSE [previousVersion |-> VersionString(0, 0, 0), changeType |-> "initial release"]

\* previousVersion and changeType from semver.major / minor / patch
ComputedPrevious(latest) ==
  IF latest.patch > 0
  THEN [previousVersion |-> VersionString(latest.major, latest.minor, latest.patch - 1),
        changeType |-> "patch"]
  ELSE IF latest.minor > 0
  THEN [previousVersion |-> VersionString(latest.major, latest.minor - 1, 0),
        changeType |-> "minor"]
  ELSE IF latest.major > 0
  THEN [previousVersion |-> VersionString(latest.major - 1, 0, 0),
        changeType |-> "major"]
  ELSE [previousVersion |-> VersionString(0, 0, 0), changeType |-> "initial release"]

CompareNumbers(a, b) == IF a < b THEN -1 ELSE IF a > b THEN 1 ELSE 0

\* semver.compare: compareMain, then comparePre (a version with a
\* prerelease tag is below the same version without one)
SemverCompare(a, b) ==
  IF a.major # b.major THEN CompareNumbers(a.major, b.major)
  ELSE IF a.minor # b.minor THEN CompareNumbers(a.minor, b.minor)
  ELSE IF a.patch # b.patch THEN CompareNumbers(a.patch, b.patch)
  ELSE IF a.pre # "" /\ b.pre = "" THEN -1
  ELSE IF a.pre = "" /\ b.pre # "" THEN 1
  ELSE 0

\* The filter keeps the versions that are not above the new one.
SemverLte(a, b) == SemverCompare(a, b) <= 0

\* semver.lt(ver, latestVersion)
SemverLt(a, b) == SemverCompare(a, b) < 0

\* The array is sorted in ascending order.
FirstAscending(allVersions) ==
  CHOOSE v \in allVersions : \A w \in allVersions : SemverCompare(v, w) <= 0

\* allVersions.sort(semver.rcompare); allVersions[0]
FirstDescending(allVersions) ==
  CHOOSE v \in allVersions : \A w \in allVersions : SemverCompare(w, v) <= 0

\* if (!versionsSet.has(previousVersion)) { filter, sort,
\*   previousVersion = allVersions[0] || previousVersion }
PreviousVersion(latest, versionsSet) ==
  LET computed    == ComputedPrevious(latest)
      allVersions == {ver \in versionsSet : SemverLt(ver, latest)}
  IN  [computed |-> computed.previousVersion,
       changeType |-> computed.changeType,
       previousVersion |->
         IF computed.previousVersion \notin versionsSet /\ allVersions # {}
         THEN FirstDescending(allVersions)
         ELSE computed.previousVersion]

\* The new version of an item, and the versions of version.json that pass
\* semver.valid: none, one or two.
PreviousInputs ==
  [latest : LatestVersions,
   versionsSet : {{}} \cup {{a, b} : a \in Versions, b \in Versions}]

\* ---------------------------------------------------------------- a call
TextInit ==
  /\ t_fn \in {"stripHtml", "truncate", "title", "previous"}
  /\ t_in \in (CASE t_fn = "stripHtml" -> StripHtmlInputs
                 [] t_fn = "truncate" -> TruncateInputs
                 [] t_fn = "title" -> ScnTitleInputs \cup RedditTitleInputs
                 [] t_fn = "previous" -> PreviousInputs)
  /\ t_pc = "called"
  /\ t_out = <<>>

StripHtmlReturns ==
  /\ t_pc = "called"
  /\ t_fn = "stripHtml"
  /\ t_pc' = "returned"
  /\ t_out' = stripHtml(t_in)
  /\ UNCHANGED <<t_fn, t_in>>
  /\ TextOnly

\* The text handed to agent.post as rt.text
TruncateReturns ==
  /\ t_pc = "called"
  /\ t_fn = "truncate"
  /\ t_pc' = "returned"
  /\ t_out' = TruncateToLimit(t_in.bot, t_in.text,
                              CharactersRemaining(t_in.text, t_in.reading))
  /\ UNCHANGED <<t_fn, t_in>>
  /\ TextOnly

TitleReturns ==
  /\ t_pc = "called"
  /\ t_fn = "title"
  /\ t_pc' = "returned"
  /\ t_out' = TitlePostText(t_in)
  /\ UNCHANGED <<t_fn, t_in>>
  /\ TextOnly

\* changeType and the previousVersion of the comparison link
PreviousReturns ==
  /\ t_pc = "called"
  /\ t_fn = "previous"
  /\ t_pc' = "returned"
  /\ t_out' = PreviousVersion(t_in.latest, t_in.versionsSet)
  /\ UNCHANGED <<t_fn, t_in>>
  /\ TextOnly

TextNext ==
  \/ StripHtmlReturns
  \/ TruncateReturns
  \/ TitleReturns
  \/ PreviousReturns

\* Part E at rest, for the specifications of the other parts.
TextIdle ==
  /\ t_fn = "none"
  /\ t_in = <<>>
  /\ t_pc = "returned"
  /\ t_out = <<>>

(***************************************************************************)
(* Part F.  fetchSapPackages                                               *)
(***************************************************************************)

\* for (const searchTerm of [...])
SearchTerms ==
  <<"@sap", "@sap-ux", "@sap-cloud-sdk", "@cap-js", "@cap-js-community">>

\* const size = 250
PageSize == 250

\* Pages with objects the registry delivers during one call; after that
\* many every page is empty.
MaxPages == 3

\* data.objects.map((obj) => obj.package.name) of a page with objects
RegistryPages ==
  {<<"@sap/cds", "@sap/xssec">>, <<"@sap/xssec", "@sap-ux/fe">>}

EmptyPage == <<>>

Range(list) == {list[i] : i \in 1..Len(list)}

\* The array is returned as it was collected.
KeepAll(list) == list

\* [...new Set(list)]: the first occurrence of every value, in order
Dedupe(list) ==
  LET firsts == {i \in 1..Len(list) : \A j \in 1..(i - 1) : list[j] # list[i]}
  IN  [k \in 1..Cardinality(firsts) |->
         list[CHOOSE i \in firsts : Cardinality({j \in firsts : j < i}) = k - 1]]

\* `...&size=${size}&from=${from}` for the search term
SearchRequest(term, from) == [text |-> SearchTerms[term], size |-> PageSize, from |-> from]

\* The locals after a page was pushed: from += size; hasMore = length > 0;
\* then the while test, the for loop's next term, or the return.
AfterPage(term, from, list, page) ==
  LET pushed  == list \o page
      from2   == from + PageSize
      hasMore == Len(page) > 0
  IN  IF hasMore
      THEN [pc |-> "limiter", term |-> term, from |-> from2, hasMore |-> TRUE,
            sapPackages |-> pushed, result |-> <<>>]
      ELSE IF term < Len(SearchTerms)
      THEN [pc |-> "limiter", term |-> term + 1, from |-> 0, hasMore |-> TRUE,
            sapPackages |-> pushed, result |-> <<>>]
      ELSE [pc |-> "returned", term |-> term, from |-> from2, hasMore |-> FALSE,
            sapPackages |-> pushed, result |-> Dedupe(pushed)]

\* The pages with objects among the answers so far.
PagesDelivered == Cardinality({i \in 1..Len(f_answers) : f_answers[i] # EmptyPage})

FetchInit ==
  /\ f_pc = "limiter"
  /\ f_term = 1
  /\ f_from = 0
  /\ f_hasMore = TRUE
  /\ f_sapPackages = <<>>
  /\ f_requests = <<>>
  /\ f_answers = <<>>
  /\ f_result = <<>>

\* await npmLimiter.removeTokens(1) resolves and the search is sent
FetchRequest ==
  /\ f_pc = "limiter"
  /\ f_pc' = "fetch"
  /\ f_requests' = Append(f_requests, SearchRequest(f_term, f_from))
  /\ UNCHANGED <<f_term, f_from, f_hasMore, f_sapPackages, f_answers, f_result>>
  /\ FetchOnly

\* await fetch(searchUrl) and await response.json() resolve
FetchPage ==
  /\ f_pc = "fetch"
  /\ \E page \in (IF PagesDelivered < MaxPages THEN RegistryPages ELSE {})
                 \cup {EmptyPage} :
       LET r == AfterPage(f_term, f_from, f_sapPackages, page)
       IN  /\ f_pc' = r.pc
           /\ f_term' = r.term
           /\ f_from' = r.from
           /\ f_hasMore' = r.hasMore
           /\ f_sapPackages' = r.sapPackages
           /\ f_result' = r.result
           /\ f_answers' = Append(f_answers, page)
  /\ UNCHANGED f_requests
  /\ FetchOnly

\* fetch or response.json() throws, or the answer has no objects array: the
\* exception leaves fetchSapPackages (checkPackages catches it)
FetchThrows ==
  /\ f_pc = "fetch"
  /\ f_pc' = "thrown"
  /\ UNCHANGED <<f_term, f_from, f_hasMore, f_sapPackages, f_requests,
                 f_answers, f_result>>
  /\ FetchOnly

FetchNext ==
  \/ FetchRequest
  \/ FetchPage
  \/ FetchThrows

\* Part F at rest, for the specifications of the other parts.
FetchIdle ==
  /\ f_pc = "none"
  /\ f_term = 0
  /\ f_from = 0
  /\ f_hasMore = FALSE
  /\ f_sapPackages = <<>>
  /\ f_requests = <<>>
  /\ f_answers = <<>>
  /\ f_result = <<>>

(***************************************************************************)
(* Part G.  The follower loop of checkfollower                             *)
(***************************************************************************)

\* Followers fetched by one run.
MaxFollowers == 2

\* follower.displayName: absent, or a string
DisplayNames ==
  {[missing |-> TRUE, s |-> <<>>],
   [missing |-> FALSE, s |-> <<>>],
   [missing |-> FALSE, s |-> <<" ", "\t">>],
   [missing |-> FALSE, s |-> <<" ", "A", " ">>]}

UniformImage ==
  [decodable |-> TRUE, channels |-> 3,
   pixels |-> [i \in 1..NumPixels |-> <<0, 0, 0>>], alpha |-> NoAlpha]

MixedImage ==
  [decodable |-> TRUE, channels |-> 3,
   pixels |-> [i \in 1..NumPixels |-> IF i % 2 = 0 THEN <<0, 0, 0>> ELSE <<1, 0, 0>>],
   alpha |-> NoAlpha]

BrokenImage ==
  [decodable |-> FALSE, channels |-> 0, pixels |-> <<>>, alpha |-> <<>>]

\* follower.avatar: absent, or a url and the bytes it serves
Avatars ==
  {[present |-> FALSE, image |-> BrokenImage]}
  \cup {[present |-> TRUE, image |-> img] :
          img \in {UniformImage, MixedImage, BrokenImage}}

\* A follower, and whether conversations.convos has a conversation with them.
Followers == [displayName : DisplayNames, avatar : Avatars, convo : BOOLEAN]

FollowerLists == UNION {[1..n -> Followers] : n \in 1..MaxFollowers}

\* isDefaultAvatar(response.data), as Part A computes it
isDefaultAvatar(image) ==
  LET b == SharpToBuffer(image, image.alpha)
  IN  IF b.ok
      THEN [pc |-> "resolved", value |-> Classify(b.data, b.info)]
      ELSE [pc |-> CatchOutcome, value |-> FALSE]

\* const checkResults = { handle, needsAvatarUpdate: false, ... }
NewCheckResults ==
  [needsAvatarUpdate |-> FALSE, needsDisplayNameUpdate |-> FALSE,
   needsDescriptionUpdate |-> FALSE]

\* if (!follower.displayName || follower.displayName.trim() === '')
DisplayNameCheck(check, displayName) ==
  IF displayName.missing \/ displayName.s = <<>> \/ Trim(displayName.s) = <<>>
  THEN [check EXCEPT !.needsDisplayNameUpdate = TRUE]
  ELSE check

\* The catch marks the avatar as one to update.
AvatarCatchFlags(check) == [check EXCEPT !.needsAvatarUpdate = TRUE]

\* catch (error) { console.error(`Error processing avatar ...`) }
AvatarCatch(check) == check

\* if (isDefault) { checkResults.needsAvatarUpdate = true }
AvatarCheck(check, isDefault) ==
  IF isDefault THEN [check EXCEPT !.needsAvatarUpdate = TRUE] ELSE check

\* else { checkResults.needsAvatarUpdate = true }: no avatar set
NoAvatarCheck(check) == [check EXCEPT !.needsAvatarUpdate = TRUE]

\* progress[did] = { ...checkResults, ... }; writeFile
SaveProgress(progress, did, check) ==
  [d \in DOMAIN progress \cup {did} |-> IF d = did THEN check ELSE progress[d]]

\* if (checkResults.needsAvatarUpdate || checkResults.needsDisplayNameUpdate)
NeedsMessage(check) == check.needsAvatarUpdate \/ check.needsDisplayNameUpdate

FolInit ==
  /\ fl_followers \in FollowerLists
  /\ fl_idx = 1
  /\ fl_pc = "next"
  /\ fl_check = NewCheckResults
  /\ fl_progress = <<>>
  /\ fl_failed = {}

\* if (existingConvo) { continue; }
FolSkip ==
  /\ fl_pc = "next"
  /\ fl_idx <= Len(fl_followers)
  /\ fl_followers[fl_idx].convo
  /\ fl_idx' = fl_idx + 1
  /\ UNCHANGED <<fl_followers, fl_pc, fl_check, fl_progress, fl_failed>>
  /\ FolOnly

\* checkResults, the display-name check, and the branch on follower.avatar
FolCheck ==
  /\ fl_pc = "next"
  /\ fl_idx <= Len(fl_followers)
  /\ ~fl_followers[fl_idx].convo
  /\ LET f == fl_followers[fl_idx]
         c == DisplayNameCheck(NewCheckResults, f.displayName)
     IN  IF f.avatar.present
         THEN fl_check' = c /\ fl_pc' = "download"
         ELSE fl_check' = NoAvatarCheck(c) /\ fl_pc' = "save"
  /\ UNCHANGED <<fl_followers, fl_idx, fl_progress, fl_failed>>
  /\ FolOnly

\* await axios({ url: follower.avatar, ... }) resolves
FolDownloaded ==
  /\ fl_pc = "download"
  /\ fl_pc' = "analyse"
  /\ UNCHANGED <<fl_followers, fl_idx, fl_check, fl_progress, fl_failed>>
  /\ FolOnly

\* await axios(...) rejects: the catch of the avatar check
FolDownloadThrows ==
  /\ fl_pc = "download"
  /\ fl_check' = AvatarCatch(fl_check)
  /\ fl_failed' = fl_failed \cup {fl_idx}
  /\ fl_pc' = "save"
  /\ UNCHANGED <<fl_followers, fl_idx, fl_progress>>
  /\ FolOnly

\* await isDefaultAvatar(response.data) resolves
FolAnalysed ==
  /\ fl_pc = "analyse"
  /\ isDefaultAvatar(fl_followers[fl_idx].avatar.image).pc = "resolved"
  /\ fl_check' = AvatarCheck(fl_check,
                   isDefaultAvatar(fl_followers[fl_idx].avatar.image).value)
  /\ fl_pc' = "save"
  /\ UNCHANGED <<fl_followers, fl_idx, fl_progress, fl_failed>>
  /\ FolOnly

\* await isDefaultAvatar(response.data) rejects: the catch of the avatar check
FolAnalysisThrows ==
  /\ fl_pc = "analyse"
  /\ isDefaultAvatar(fl_followers[fl_idx].avatar.image).pc = "rejected"
  /\ fl_check' = AvatarCatch(fl_check)
  /\ fl_failed' = fl_failed \cup {fl_idx}
  /\ fl_pc' = "save"
  /\ UNCHANGED <<fl_followers, fl_idx, fl_progress>>
  /\ FolOnly

\* await saveProgress(follower.did, checkResults), then the test for the
\* message, or the delay of 500 ms and the next follower
FolSave ==
  /\ fl_pc = "save"
  /\ fl_progress' = SaveProgress(fl_progress, fl_idx, fl_check)
  /\ IF NeedsMessage(fl_check)
     THEN fl_pc' = "message" /\ fl_idx' = fl_idx
     ELSE fl_pc' = "next" /\ fl_idx' = fl_idx + 1
  /\ UNCHANGED <<fl_followers, fl_check, fl_failed>>
  /\ FolOnly

\* The message is sent, or the catch logs that it was not; the delays, and
\* the next follower.
FolMessageDone ==
  /\ fl_pc = "message"
  /\ fl_pc' = "next"
  /\ fl_idx' = fl_idx + 1
  /\ UNCHANGED <<fl_followers, fl_check, fl_progress, fl_failed>>
  /\ FolOnly

\* The for loop is through.
FolFinish ==
  /\ fl_pc = "next"
  /\ fl_idx > Len(fl_followers)
  /\ fl_pc' = "done"
  /\ UNCHANGED <<fl_followers, fl_idx, fl_check, fl_progress, fl_failed>>
  /\ FolOnly

FolNext ==
  \/ FolSkip
  \/ FolCheck
  \/ FolDownloaded
  \/ FolDownloadThrows
  \/ FolAnalysed
  \/ FolAnalysisThrows
  \/ FolSave
  \/ FolMessageDone
  \/ FolFinish

\* Part G at rest, for the specifications of the other parts.
FolIdle ==
  /\ fl_followers = <<>>
  /\ fl_idx = 1
  /\ fl_pc = "done"
  /\ fl_check = NewCheckResults
  /\ fl_progress = <<>>
  /\ fl_failed = {}

(***************************************************************************)
(* Specifications                                                          *)
(***************************************************************************)

InitAvatar ==
  AvInit /\ ScnIdle /\ PlIdle /\ BotIdle /\ TextIdle /\ FetchIdle /\ FolIdle

SpecAvatar == InitAvatar /\ [][AvNext]_vars

InitSCN ==
  ScnInit /\ AvIdle /\ PlIdle /\ BotIdle /\ TextIdle /\ FetchIdle /\ FolIdle

SpecSCN == InitSCN /\ [][ScnNext]_vars

InitPoll ==
  PlInit /\ AvIdle /\ ScnIdle /\ BotIdle /\ TextIdle /\ FetchIdle /\ FolIdle

\* Node's event loop: the clock advances and a due timer is run.
SpecPoll ==
  /\ InitPoll
  /\ [][PlNext]_vars
  /\ WF_vars(PlTick)
  /\ WF_vars(PlTimerFire)

InitBots ==
  BotInit /\ AvIdle /\ ScnIdle /\ PlIdle /\ TextIdle /\ FetchIdle /\ FolIdle

SpecBots == InitBots /\ [][BotNext]_vars

InitText ==
  TextInit /\ AvIdle /\ ScnIdle /\ PlIdle /\ BotIdle /\ FetchIdle /\ FolIdle

SpecText == InitText /\ [][TextNext]_vars

InitFetch ==
  FetchInit /\ AvIdle /\ ScnIdle /\ PlIdle /\ BotIdle /\ TextIdle /\ FolIdle

\* The rate limiter hands out its token and the registry answers or the
\* fetch throws: a pending await of the call does not stay pending.
SpecFetch ==
  /\ InitFetch
  /\ [][FetchNext]_vars
  /\ WF_vars(FetchNext)

InitFollowers ==
  FolInit /\ AvIdle /\ ScnIdle /\ PlIdle /\ BotIdle /\ TextIdle /\ FetchIdle

SpecFollowers == InitFollowers /\ [][FolNext]_vars

(***************************************************************************)
(* Claims about Part A (specification SpecAvatar)                          *)
(***************************************************************************)

\* The colour values of pixel i of the decoded image.
PixelColour(image, i) == image.pixels[i]

\* How many pixels of the image have the most frequent colour.
MostFrequentColourCount(image) ==
  Max({Cardinality({j \in 1..Len(image.pixels) :
                      PixelColour(image, j) = PixelColour(image, i)})
       : i \in 1..Len(image.pixels)})

\* C1: isDefaultAvatar resolves with true exactly when the most frequent
\* pixel colour covers strictly more than 75% of the pixels of the decoded
\* image (exactly 75% or less: false).
C1_ThresholdOverPixelColours ==
  av_pc = "resolved" =>
    (av_result <=>
       MostFrequentColourCount(av_image) * 100
         > DefaultAvatarThreshold * Len(av_image.pixels))

\* C2: the classification does not depend on the alpha channel, for every
\* channel count: the same colours with another alpha plane are classified
\* alike, and two pixels with the same colour values get the same colour key.
C2_AlphaIndependent ==
  av_pc = "resolved" =>
    /\ av_result =
         Classify(SharpToBuffer(av_image, av_alpha2).data, av_info)
    /\ \A i, j \in 1..Len(av_image.pixels) :
         PixelColour(av_image, i) = PixelColour(av_image, j) =>
           ColorKey(av_data, (i - 1) * av_info.channels)
             = ColorKey(av_data, (j - 1) * av_info.channels)

\* C3: a call on data that does not decode as an image ends in a rejected
\* promise and never in a true/false classification.
C3_InvalidImageRejects ==
  (~av_image.decodable /\ av_pc # "called") =>
    (av_pc = "rejected" /\ av_result = "none")

C3_Witness == ~av_image.decodable /\ av_pc = "rejected"

(***************************************************************************)
(* Claims about Part B (specification SpecSCN)                             *)
(***************************************************************************)

\* C4: for every (feed URL, item id) key Bluesky accepts at most one post,
\* over all check cycles and restarts.
C4_AtMostOnePostPerKey == \A k \in Keys : posted[k] <= 1

\* A step in which slot s calls agent.post.
PostStarts(s) == cyc[s].pc = "facets" /\ cyc'[s].pc = "post"

\* C5: a post is started only when no other attempt of the process is under
\* way and at least RATE_LIMIT_INTERVAL has passed since the previous attempt
\* of the process completed.
C5_RateLimitRespected ==
  [][\A s \in Slots : PostStarts(s) =>
       /\ \A o \in Slots : cyc[o].pc # "post"
       /\ (lastAttemptEnd = -1 \/ now - lastAttemptEnd >= RATE_LIMIT_INTERVAL)]_vars

\* C6: every text handed to agent.post has at most 300 characters.
C6_TextWithinLimit ==
  \A s \in Slots : cyc[s].pc = "post" => Len(cyc[s].req.text) <= POST_LIMIT

\* A step in which the post of slot s fails (the process is not stopped and
\* Bluesky accepts nothing).
PostFails(s) ==
  /\ cyc[s].pc = "post"
  /\ cyc'[s] # cyc[s]
  /\ proc' = "running"
  /\ posted' = posted

\* Something is left for the cycle of slot s after its current item.
WorkLeft(s) ==
  \/ cyc[s].feed < Len(RSS_FEED_URLS)
  \/ \E j \in (cyc[s].idx + 1)..Len(cyc[s].items) :
       KeyAt(cyc[s], j) \notin DOMAIN postedIds

\* C7: a failed post leaves the process running and the posted ids (memory
\* and file) as they were, the cycle goes on with what is left of it, and no
\* cycle passes an item that is not recorded as posted without attempting
\* it, so a failed item is attempted again by the next cycle that meets it.
C7_FailedPostIsRetried ==
  /\ [][\A s \in Slots : PostFails(s) =>
          /\ postedIds' = postedIds
          /\ file' = file
          /\ WorkLeft(s) =>
               /\ cyc'[s].pc \in {"fetch", "sleep", "facets"}
               /\ \/ cyc'[s].feed > cyc[s].feed
                  \/ cyc'[s].idx > cyc[s].idx]_vars
  /\ [](\A s \in Slots : \A k \in cyc[s].passed :
          k \in DOMAIN postedIds \/ k \in cyc[s].attempted)

\* A timer-triggered cycle posts an item whose post failed in an earlier
\* cycle of the same process.
C7_Witness ==
  \E s \in Slots :
    /\ cyc[s].pc = "post"
    /\ KeyAt(cyc[s], cyc[s].idx) \in failed
    /\ KeyAt(cyc[s], cyc[s].idx) \notin DOMAIN postedIds
    /\ ~cyc[s].initial
    /\ budget.restarts = 0

\* C10: after every accepted post posted_ids.json holds the in-memory map,
\* which maps the item's key to the uri Bluesky returned for that post; no
\* key ever leaves the map.
C10_FileMirrorsMap ==
  /\ [][\A k \in Keys : posted'[k] > posted[k] =>
          /\ file'.kind = "object"
          /\ file'.map = postedIds'
          /\ k \in DOMAIN postedIds'
          /\ postedIds'[k] = PostUri(k, posted'[k])]_vars
  /\ [][DOMAIN postedIds \subseteq DOMAIN postedIds']_vars

\* A key was posted, recorded and saved, and the process came up again.
C10_Witness ==
  \E k \in Keys :
    /\ posted[k] = 1
    /\ proc = "running"
    /\ budget.restarts = 1
    /\ lastPostTime = 0
    /\ file.kind = "object"
    /\ file.map = postedIds
    /\ k \in DOMAIN postedIds
    /\ postedIds[k] = PostUri(k, 1)

\* C17: every post handed to agent.post carries the item's link: the text
\* ends with the link and there is no embed, or there is an external embed
\* whose uri is the link; the embed is used exactly when the text with the
\* link has more than 300 characters.
C17_PostCarriesLink ==
  \A s \in Slots : cyc[s].pc = "post" =>
    LET item == cyc[s].items[cyc[s].idx]
        req  == cyc[s].req
    IN  IF Len(PostText(RSS_FEED_URLS[cyc[s].feed], item)) > POST_LIMIT
        THEN req.embed # NoEmbed /\ req.embed.uri = item.link
        ELSE req.embed = NoEmbed /\ EndsWith(req.text, item.link)

\* A post with an embed is under way.
C17_Witness ==
  \E s \in Slots :
    /\ cyc[s].pc = "post"
    /\ cyc[s].req.embed # NoEmbed
    /\ cyc[s].req.embed.uri = cyc[s].items[cyc[s].idx].link

\* The place of the current item of cycle c in the feed as it was fetched.
PlaceInFeed(c) ==
  CHOOSE i \in 1..Len(c.fetched) : c.fetched[i] = c.items[c.idx]

\* C18: when a cycle starts the post of an item, every item that comes after
\* it in the fetched feed (an older one) has been attempted by the cycle or
\* is recorded as posted: new items are attempted oldest first.
C18_OldestFirst ==
  [][\A s \in Slots : PostStarts(s) =>
       \A j \in (PlaceInFeed(cyc[s]) + 1)..Len(cyc[s].fetched) :
         LET k == UniqueId(RSS_FEED_URLS[cyc[s].feed], cyc[s].fetched[j])
         IN  k \in cyc[s].attempted \/ k \in DOMAIN postedIds]_vars

\* The newest of two fetched items is posted after the cycle attempted the
\* older one.
C18_Witness ==
  \E s \in Slots :
    /\ cyc[s].pc = "post"
    /\ Len(cyc[s].fetched) = 2
    /\ cyc[s].items[cyc[s].idx] = cyc[s].fetched[1]
    /\ UniqueId(RSS_FEED_URLS[cyc[s].feed], cyc[s].fetched[2]) \in cyc[s].attempted

\* Key k is in posted_ids.json as an id of the old array format: in the array
\* itself, or with the null the conversion gives it.
LegacyRecorded(k) ==
  \/ file.kind = "array" /\ \E i \in 1..Len(file.ids) : file.ids[i] = k
  \/ file.kind = "object" /\ k \in DOMAIN file.map /\ file.map[k] = Null

C8_CheckRecurs == (pl_event \in {"return", "caught"}) ~> (pl_event = "start")

\* The timer starts a cycle after the first check ended in its catch block.
C8_Witness ==
  /\ pl_first = "caught"
  /\ pl_main = "scheduled"
  /\ pl_event = "start"
  /\ pl_runs = 1

\* C9: in each polling bot a timer-triggered check cycle never runs while an
\* earlier check cycle of the same process is still in progress.
C9_CyclesDoNotOverlap == pl_runs <= 1

(***************************************************************************)
(* Claims about Part D (specification SpecBots)                            *)
(***************************************************************************)

\* C11: in the npm, UI5 and Reddit bots Bluesky accepts at most one post for
\* every identifier, over all check cycles and restarts, and an identifier
\* is in the persisted posted record only after a post of it was accepted.
C11_AtMostOnePostPerId ==
  /\ \A k \in AllBotIds : b_posted[k] <= 1
  /\ b_file.kind = "object" => \A k \in DOMAIN b_file.map : b_posted[k] >= 1

\* A step in which slot s calls agent.post.
BotPostStarts(s) == b_cyc[s].pc = "facets" /\ b_cyc'[s].pc = "post"

\* C12: a post is started only when at least BLUESKY_RATE_LIMIT_INTERVAL has
\* passed since the previous accepted post of the same process completed.
C12_MinIntervalRespected ==
  [][\A s \in Slots : BotPostStarts(s) =>
       (b_lastSuccess = -1 \/ b_now - b_lastSuccess >= BLUESKY_RATE_LIMIT_INTERVAL)]_vars

\* C14: a package whose registry fetch has failed stays among the packages
\* the loop of a later cycle fetches: it is not in the set the loop skips.
C14_FailedFetchStaysEligible == \A p \in b_fetchFailed : p \notin b_notFound

\* A step in which slot s fetches the registry entry of its package.
BotFetchStarts(s) == b_cyc[s].pc = "limiter" /\ b_cyc'[s].pc = "registry"

\* C20: the not-found set only grows, every addition is written to
\* not_found_packages.json, and no registry fetch and no post is started for
\* a package that is in the set.
C20_NotFoundIsFinal ==
  [][/\ b_notFound \subseteq b_notFound'
     /\ b_notFound' # b_notFound => b_nfFile' = StringifySet(b_notFound')
     /\ \A s \in Slots : (BotFetchStarts(s) \/ BotPostStarts(s)) =>
          b_cyc[s].items[b_cyc[s].idx] \notin b_notFound]_vars

\* The awaits of the loop body of checkPackages that can throw.
ThrowingAwaits == {"registry", "facets", "post"}

\* C21: in the npm bot an exception thrown in the loop body ends the cycle
\* it is thrown in, records nothing (posted packages, not-found set and
\* their files stay as they are, nothing is posted) and leaves the interval
\* timer set; a package at which an exception was thrown is recorded as
\* posted only once Bluesky has accepted a post of it.
C21_ExceptionEndsCycleOnly ==
  /\ [](b_bot = "npm" =>
         \A k \in DOMAIN b_ids : k[1] \in b_caught.at => b_posted[k] >= 1)
  /\ [][(b_bot = "npm" /\ b_caught'.n > b_caught.n) =>
          /\ UNCHANGED <<b_ids, b_file, b_notFound, b_nfFile, b_posted>>
          /\ b_timer' # 0
          /\ \E s \in Slots :
               /\ b_cyc[s].pc \in ThrowingAwaits
               /\ b_cyc'[s].pc = "idle"
               /\ \A t \in Slots \ {s} : b_cyc'[t] = b_cyc[t]]_vars

\* The post of p has thrown once, in a cycle that did not reach q; a later
\* cycle of the same process has posted p and q.
C21_Witness ==
  /\ b_bot = "npm"
  /\ b_budget.restarts = 0
  /\ b_caught = [n |-> 1, at |-> {"p"}]
  /\ b_fetchFailed = {}
  /\ \E k \in DOMAIN b_ids : k[1] = "p" /\ b_posted[k] = 1
  /\ \E k \in DOMAIN b_ids : k[1] = "q" /\ b_posted[k] = 1

\* C26: in the UI5 bot a fetch answered with a status that is not ok posts
\* and records nothing and moves the cycle on to the next type (or ends it
\* after the last type); the cycle posts nothing for a type whose fetch it
\* saw fail.
C26_NotOkSkipsOneType ==
  /\ [](\A s \in Slots :
         b_cyc[s].pc \in {"sleep", "facets", "post", "pause"} =>
           Sources(b_bot)[b_cyc[s].src] \notin b_cyc[s].notOk)
  /\ [][b_notOk' > b_notOk =>
          /\ UNCHANGED <<b_ids, b_file, b_posted>>
          /\ \E s \in Slots :
               /\ b_cyc[s].pc = "list"
               /\ \A t \in Slots \ {s} : b_cyc'[t] = b_cyc[t]
               /\ IF b_cyc[s].src < Len(Sources(b_bot))
                  THEN /\ b_cyc'[s].pc = "list"
                       /\ b_cyc'[s].src = b_cyc[s].src + 1
                       /\ Sources(b_bot)[b_cyc[s].src] \in b_cyc'[s].notOk
                  ELSE b_cyc'[s].pc = "idle"]_vars

\* The fetch for SAPUI5 was not ok, and the same cycle is posting a version
\* of OpenUI5.
C26_Witness ==
  /\ b_bot = "ui5"
  /\ \E s \in Slots :
       /\ b_cyc[s].pc = "post"
       /\ Sources(b_bot)[b_cyc[s].src] = "OpenUI5"
       /\ b_cyc[s].notOk = {"SAPUI5"}
       /\ \A k \in DOMAIN b_ids : k[1] # "SAPUI5"

(***************************************************************************)
(* Claims about Part E (specification SpecText)                            *)
(***************************************************************************)

\* C13: in the npm, UI5 and Reddit bots a composed text of more than 300
\* characters is posted cut to exactly 300 characters, ending with the
\* ellipsis; a text of at most 300 characters is posted unchanged.
C13_TruncatedToLimit ==
  (t_fn = "truncate" /\ t_pc = "returned") =>
    IF Len(t_in.text) > POST_LIMIT
    THEN Len(t_out) = POST_LIMIT /\ EndsWith(t_out, EllipsisOf(t_in.bot))
    ELSE t_out = t_in.text

\* C15: what stripHtml returns has no '<' with a '>' after it, and a missing
\* or empty input gives the empty string.
C15_NoTagLeft ==
  (t_fn = "stripHtml" /\ t_pc = "returned") =>
    /\ ~\E i, j \in 1..Len(t_out) : i < j /\ t_out[i] = "<" /\ t_out[j] = ">"
    /\ (t_in.missing \/ t_in.s = <<>>) => t_out = <<>>

\* The fixed parts of the post text around the title, the title and the
\* maximum title length of an input of the title truncation.
TitleHead(in) ==
  IF in.bot = "scn" THEN TextHead(in.feed, in.item)
  ELSE RedditBaseText(in.post.sub, in.post.author)

TitleTail(in) ==
  IF in.bot = "scn" THEN TextTail(in.item) ELSE RedditSuffix(in.post.permalink)

TitleOf(in) == IF in.bot = "scn" THEN in.item.title ELSE in.post.title

TitleMax(in) ==
  IF in.bot = "scn" THEN MaxTitleLength(in.feed, in.item)
  ELSE RedditMaxTitleLength(in.post)

TitleMarker(in) == IF in.bot = "scn" THEN Ellipsis ELSE ThreeDots

\* C16: a title longer than the maximum title length, the maximum being at
\* least 3, gives a post text of exactly 290 characters in which the title
\* part ends with the ellipsis marker; a title not longer than the maximum is
\* used unchanged.
C16_TitleFitsBudget ==
  (t_fn = "title" /\ t_pc = "returned") =>
    LET part == SubSeq(t_out, Len(TitleHead(t_in)) + 1,
                       Len(t_out) - Len(TitleTail(t_in)))
    IN  /\ t_out = TitleHead(t_in) \o part \o TitleTail(t_in)
        /\ (Len(TitleOf(t_in)) > TitleMax(t_in) /\ TitleMax(t_in) >= 3) =>
             /\ Len(t_out) = TITLE_BUDGET
             /\ EndsWith(part, TitleMarker(t_in))
        /\ Len(TitleOf(t_in)) <= TitleMax(t_in) => part = TitleOf(t_in)

\* A Reddit title longer than the maximum title length was cut.
C16_Witness ==
  /\ t_fn = "title"
  /\ t_pc = "returned"
  /\ t_in.bot = "reddit"
  /\ Len(TitleOf(t_in)) > TitleMax(t_in)
  /\ TitleMax(t_in) >= 3
  /\ Len(t_out) = TITLE_BUDGET

\* A call of the previous-version computation has returned.
PreviousReturned == t_fn = "previous" /\ t_pc = "returned"

\* C23: the change type and the computed previous version of a new version
\* major.minor.patch: patch > 0 gives 'patch' and major.minor.(patch-1),
\* else minor > 0 gives 'minor' and major.(minor-1).0, else major > 0 gives
\* 'major' and (major-1).0.0, else 'initial release' and 0.0.0.
C23_ChangeTypeAndPrevious ==
  PreviousReturned =>
    LET v == t_in.latest
    IN  /\ v.patch > 0 =>
             /\ t_out.changeType = "patch"
             /\ t_out.computed = VersionString(v.major, v.minor, v.patch - 1)
        /\ (v.patch = 0 /\ v.minor > 0) =>
             /\ t_out.changeType = "minor"
             /\ t_out.computed = VersionString(v.major, v.minor - 1, 0)
        /\ (v.patch = 0 /\ v.minor = 0 /\ v.major > 0) =>
             /\ t_out.changeType = "major"
             /\ t_out.computed = VersionString(v.major - 1, 0, 0)
        /\ (v.patch = 0 /\ v.minor = 0 /\ v.major = 0) =>
             /\ t_out.changeType = "initial release"
             /\ t_out.computed = VersionString(0, 0, 0)

\* A major release: 1.0.0 or 2.0.0.
C23_Witness ==
  /\ PreviousReturned
  /\ t_in.latest.major > 0
  /\ t_out.changeType = "major"
  /\ t_out.computed = VersionString(t_in.latest.major - 1, 0, 0)

\* The order of versions: by major, minor, patch; a prerelease is below its
\* release.
VersionLess(a, b) ==
  \/ a.major < b.major
  \/ a.major = b.major /\ a.minor < b.minor
  \/ a.major = b.major /\ a.minor = b.minor /\ a.patch < b.patch
  \/ a.major = b.major /\ a.minor = b.minor /\ a.patch = b.patch
       /\ a.pre # "" /\ b.pre = ""

\* The listed versions strictly lower than the new version.
ListedLower == {w \in t_in.versionsSet : VersionLess(w, t_in.latest)}

\* C24: a computed previous version that is listed is used unchanged; one
\* that is not listed is replaced by the greatest listed version strictly
\* lower than the new version, and kept if no listed version is lower.
C24_FallbackToListedLower ==
  PreviousReturned =>
    IF t_out.computed \in t_in.versionsSet \/ ListedLower = {}
    THEN t_out.previousVersion = t_out.computed
    ELSE /\ t_out.previousVersion \in ListedLower
         /\ \A w \in ListedLower \ {t_out.previousVersion} :
              VersionLess(w, t_out.previousVersion)

\* The computed version is not listed, two lower versions are, and the
\* greater of them is used.
C24_Witness ==
  /\ PreviousReturned
  /\ t_out.computed \notin t_in.versionsSet
  /\ Cardinality(ListedLower) = 2
  /\ t_out.previousVersion \in ListedLower
  /\ t_out.previousVersion # t_out.computed

\* C25: for a new version other than 0.0.0 the previous version of the
\* comparison link is strictly lower than the new version, whatever
\* version.json lists.
C25_PreviousStrictlyLower ==
  (PreviousReturned /\ t_in.latest # VersionString(0, 0, 0)) =>
    VersionLess(t_out.previousVersion, t_in.latest)

\* The new version itself and a prerelease of it are listed, the computed
\* previous version is not: the prerelease is used.
C25_Witness ==
  /\ PreviousReturned
  /\ t_in.latest \in t_in.versionsSet
  /\ t_out.computed \notin t_in.versionsSet
  /\ t_out.previousVersion = [t_in.latest EXCEPT !.pre = "rc"]

(***************************************************************************)
(* Claims about Part F (specification SpecFetch)                           *)
(***************************************************************************)

\* The search that follows search i, given the page search i was answered
\* with: the next offset of the same term, or offset 0 of the next term.
SearchAfter(i) ==
  LET term == CHOOSE t \in 1..Len(SearchTerms) : SearchTerms[t] = f_requests[i].text
  IN  IF f_answers[i] # EmptyPage
      THEN SearchRequest(term, f_requests[i].from + PageSize)
      ELSE SearchRequest(term + 1, 0)

\* Every name of every page the registry answered with.
FetchedNames == UNION {Range(f_answers[i]) : i \in 1..Len(f_answers)}

\* C22: fetchSapPackages searches the terms in order, each from offset 0 in
\* steps of 250, and goes on with a term exactly as long as the pages have
\* objects; it returns after the empty page of the last term, with every
\* fetched name in the list exactly once; and the call ends once the
\* registry answers with empty pages.
C22_PagingAndResult ==
  /\ [](/\ f_requests # <<>> => f_requests[1] = SearchRequest(1, 0)
        /\ \A i \in 1..(Len(f_requests) - 1) : f_requests[i + 1] = SearchAfter(i)
        /\ f_pc = "returned" =>
             /\ Len(f_answers) = Len(f_requests)
             /\ f_requests[Len(f_requests)].text = SearchTerms[Len(SearchTerms)]
             /\ f_answers[Len(f_answers)] = EmptyPage
             /\ Range(f_result) = FetchedNames
             /\ Cardinality(Range(f_result)) = Len(f_result)
        /\ f_pc # "returned" => f_result = <<>>)
  /\ <>(f_pc \in {"returned", "thrown"})

\* The call has returned after pages that repeat a name, two of them for
\* one term.
C22_Witness ==
  /\ f_pc = "returned"
  /\ Len(f_sapPackages) > Len(f_result)
  /\ \E i \in 1..Len(f_requests) : f_requests[i].from = 2 * PageSize

(***************************************************************************)
(* Claims about Part G (specification SpecFollowers)                       *)
(***************************************************************************)

\* A display name that is absent, empty, or made of white space only.
NoDisplayName(displayName) ==
  \/ displayName.missing
  \/ \A i \in 1..Len(displayName.s) : displayName.s[i] \in JsWhiteSpace

\* The avatar of follower i was downloaded and isDefaultAvatar resolved true.
ClassifiedPlaceholder(i) ==
  /\ fl_followers[i].avatar.present
  /\ i \notin fl_failed
  /\ isDefaultAvatar(fl_followers[i].avatar.image) = [pc |-> "resolved", value |-> TRUE]

====
